---- MODULE Spec2Model ----
(***************************************************************************)
(* AI Tennis Lab email assistant (email_assistant.py) and the generator    *)
(* functions it imports (generate.py), as a state machine.                 *)
(*                                                                         *)
(* Strings are sequences of one-character strings, so that lower(),        *)
(* split(), replace() and the substring test `in` are computed as Python   *)
(* computes them.                                                          *)
(***************************************************************************)
EXTENDS Integers, Sequences, FiniteSets, TLC

\* ------------------------------------------------------------------ bounds

\* Largest number of unseen messages one IMAP search returns.
MaxBatch == 2

\* Poll intervals the IMAP round trip of one poll step takes in the slow-network
\* scenario (Init of Spec); the round trip is 0 in the fast-network scenario.
SlowPollRounds == 29

\* Most phrases in the subject, and in the body, of a message given to
\* parse_command.
MaxSubjectPhrases == 2

MaxBodyPhrases == 1

\* Most topics in a catalog, and most words in a search term, given to
\* find_topic.
MaxTopics == 2

MaxTermWords == 2

\* Most topics in a catalog given to handle_topic_list and handle_status.
MaxListTopics == 3
MaxCount == 2

\* ------------------------------------------------------- program constants

POLL_INTERVAL == 30

AUTO_GENERATE_INTERVAL == 1800

ALLOWED_SENDER == "r.leb@cybertime.at"

\* generate.check_quality: the score of a response without a parsable GESAMT line.
DefaultScore == 7

\* generate.check_quality: passed = score >= 7.
PassScore == 7

\* range(2) in handle_new_article, handle_rework and auto_generate_next.
MaxAttempts == 2
MainAttempts == 3

\* ----------------------------------------------------------------- strings

Range(s) == {s[i] : i \in DOMAIN s}

Min(a, b) == IF a <= b THEN a ELSE b

Upper ==
  <<"A","B","C","D","E","F","G","H","I","J","K","L","M",
    "N","O","P","Q","R","S","T","U","V","W","X","Y","Z">>

Lower ==
  <<"a","b","c","d","e","f","g","h","i","j","k","l","m",
    "n","o","p","q","r","s","t","u","v","w","x","y","z">>

\* str.lower() on one character (ASCII).
LowerChar(c) ==
  IF \E i \in DOMAIN Upper : Upper[i] = c
    THEN Lower[CHOOSE i \in DOMAIN Upper : Upper[i] = c]
    ELSE c

lower(s) == [i \in DOMAIN s |-> LowerChar(s[i])]

\* str.replace(old, new) for single characters.
replace(s, old, new) == [i \in DOMAIN s |-> IF s[i] = old THEN new ELSE s[i]]

\* The characters str.split(), str.strip() and the regex class \s take as blank.
IsSpace(c) == c \in {" ", "\n", "\t"}

\* str.split(): the maximal runs of non-blank characters, in order.
RECURSIVE SplitFrom(_, _, _)
SplitFrom(s, i, cur) ==
  IF i > Len(s)
    THEN IF cur = <<>> THEN <<>> ELSE <<cur>>
    ELSE IF IsSpace(s[i])
      THEN (IF cur = <<>> THEN <<>> ELSE <<cur>>) \o SplitFrom(s, i + 1, <<>>)
      ELSE SplitFrom(s, i + 1, Append(cur, s[i]))

split(s) == SplitFrom(s, 1, <<>>)

\* " ".join(words)
RECURSIVE join(_)
join(words) ==
  IF words = <<>> THEN <<>>
  ELSE IF Len(words) = 1 THEN words[1]
  ELSE words[1] \o <<" ">> \o join(Tail(words))

\* Python's `a in b` on strings: a is a contiguous part of b.
In(a, b) ==
  \E k \in 0..(Len(b) - Len(a)) : \A i \in 1..Len(a) : b[k + i] = a[i]

\* ---------------------------------------------------------- command parsing

Max(S) == CHOOSE x \in S : \A y \in S : y <= x

\* The regex class \w on lower-cased ASCII text.
IsWordChar(c) ==
  c \in Range(Lower) \cup Range(Upper)
        \cup {"0","1","2","3","4","5","6","7","8","9","_"}

\* The string x stands in text at position i.
StartsAt(text, i, x) ==
  /\ i + Len(x) - 1 <= Len(text)
  /\ \A k \in 1..Len(x) : text[i + k - 1] = x[k]

\* The pieces the patterns of parse_command are made of: one of some literal
\* strings, \s+, and \w*.
Lit(alts) == [t |-> "lit", alts |-> alts]

Blanks == [t |-> "blanks", alts |-> {}]

WordChars == [t |-> "wordchars", alts |-> {}]

\* The positions after a match of one piece that starts at position i.
PieceEnds(text, i, piece) ==
  CASE piece.t = "lit" ->
         {i + Len(x) : x \in {y \in piece.alts : StartsAt(text, i, y)}}
    [] piece.t = "blanks" ->
         {j \in (i + 1)..(Len(text) + 1) : \A k \in i..(j - 1) : IsSpace(text[k])}
    [] piece.t = "wordchars" ->
         {j \in i..(Len(text) + 1) : \A k \in i..(j - 1) : IsWordChar(text[k])}

\* The positions after a match of the pieces in sequence, from any of starts.
RECURSIVE PiecesEnds(_, _, _)
PiecesEnds(text, starts, pieces) ==
  IF pieces = <<>> \/ starts = {} THEN starts
  ELSE PiecesEnds(text,
                  UNION {PieceEnds(text, i, pieces[1]) : i \in starts},
                  Tail(pieces))

\* (?:ueber|uber|zum thema|zu)
AboutDe ==
  Lit({ <<"u","e","b","e","r">>, <<"u","b","e","r">>, <<"z","u","m"," ","t","h","e","m","a">>, <<"z","u">> })

\* new_patterns, each without its final group (.+); the optional
\* (?:einen?\s+)? of the second pattern gives it two forms.
new_patterns ==
  << { <<Lit({ <<"n","e","u","e">>, <<"n","e","u","e","r">> }), Blanks, Lit({ <<"a","r","t","i","k","e","l">> }), Blanks,
         AboutDe, Blanks>> },
     { <<Lit({ <<"s","c","h","r","e","i","b">> }), WordChars, Blanks,
         Lit({ <<"e","i","n","e">>, <<"e","i","n","e","n">> }), Blanks,
         Lit({ <<"a","r","t","i","k","e","l">> }), Blanks, AboutDe, Blanks>>,
       <<Lit({ <<"s","c","h","r","e","i","b">> }), WordChars, Blanks,
         Lit({ <<"a","r","t","i","k","e","l">> }), Blanks, AboutDe, Blanks>> },
     { <<Lit({ <<"n","e","w">> }), Blanks, Lit({ <<"a","r","t","i","c","l","e">> }), Blanks,
         Lit({ <<"a","b","o","u","t">>, <<"o","n">> }), Blanks>> } >>

\* rework_patterns, without the final group (.+).
rework_patterns ==
  << { <<Lit({ <<"u","e","b","e","r","a","r","b","e","i","t","e">>, <<"u","e","b","e","r","a","r","b","e","i","t","e","n">>, <<"r","e","w","o","r","k">>,
              <<"v","e","r","b","e","s","s","e","r","e">>, <<"v","e","r","b","e","s","s","e","r","n">>, <<"a","k","t","u","a","l","i","s","i","e","r","e">> }), Blanks>> } >>

\* The positions where the group (.+) can start after a match of the pattern's
\* head at position i: a character other than a newline stands there.
GroupStarts(text, i, forms) ==
  {e \in UNION {PiecesEnds(text, {i}, f) : f \in forms} :
     e <= Len(text) /\ text[e] # "\n"}

\* The last position of the line that position e is in.
LineEnd(text, e) ==
  Max({j \in e..Len(text) : \A k \in e..j : text[k] # "\n"})

\* re.search(pattern, text): the leftmost start with a match; \s+ is greedy, so
\* the group starts as late as it can; (.+) runs to the end of the line.
\* <<>> when there is no match, else <<group(1)>>.
search(forms, text) ==
  LET starts == {i \in 1..Len(text) : GroupStarts(text, i, forms) # {}}
  IN IF starts = {} THEN <<>>
     ELSE LET i == CHOOSE x \in starts : \A y \in starts : x <= y
              e == Max(GroupStarts(text, i, forms))
          IN << SubSeq(text, e, LineEnd(text, e)) >>

\* for pattern in patterns: the group of the first pattern that matches.
RECURSIVE FirstMatch(_, _, _)
FirstMatch(patterns, k, text) ==
  IF k > Len(patterns) THEN <<>>
  ELSE LET m == search(patterns[k], text)
       IN IF m # <<>> THEN m ELSE FirstMatch(patterns, k + 1, text)

\* str.strip()
RECURSIVE strip(_)
strip(s) ==
  IF s = <<>> THEN s
  ELSE IF IsSpace(s[1]) THEN strip(Tail(s))
  ELSE IF IsSpace(s[Len(s)]) THEN strip(SubSeq(s, 1, Len(s) - 1))
  ELSE s

\* str.rstrip(".!")
RECURSIVE rstrip(_, _)
rstrip(s, chars) ==
  IF s # <<>> /\ s[Len(s)] \in chars
    THEN rstrip(SubSeq(s, 1, Len(s) - 1), chars)
    ELSE s

\* parse_command: `"themenliste" in text or "topics" in text or "themen" in text`
ListWords == { <<"t","h","e","m","e","n","l","i","s","t","e">>, <<"t","o","p","i","c","s">>, <<"t","h","e","m","e","n">> }

\* parse_command with the status rule tried before the topic-list rule.
parse_command_StatusFirst(subject, body) ==
  LET text == lower(subject \o <<" ">> \o body)
      new == FirstMatch(new_patterns, 1, text)
      rework == FirstMatch(rework_patterns, 1, text)
  IN IF In(<<"s","t","a","t","u","s">>, text) /\ Len(split(text)) < 10
       THEN [cmd |-> "status", arg |-> <<>>]
     ELSE IF \E w \in ListWords : In(w, text)
       THEN [cmd |-> "topic_list", arg |-> <<>>]
     ELSE IF new # <<>>
       THEN [cmd |-> "new_article", arg |-> rstrip(strip(new[1]), {".", "!"})]
     ELSE IF rework # <<>>
       THEN [cmd |-> "rework", arg |-> rstrip(strip(rework[1]), {".", "!"})]
     ELSE [cmd |-> "question",
           arg |-> IF body # <<>> THEN subject \o <<"\n">> \o body ELSE subject]

\* parse_command: (command, argument); the argument None is <<>>.
parse_command(subject, body) ==
  LET text == lower(subject \o <<" ">> \o body)
      new == FirstMatch(new_patterns, 1, text)
      rework == FirstMatch(rework_patterns, 1, text)
  IN IF \E w \in ListWords : In(w, text)
       THEN [cmd |-> "topic_list", arg |-> <<>>]
     ELSE IF In(<<"s","t","a","t","u","s">>, text) /\ Len(split(text)) < 10
       THEN [cmd |-> "status", arg |-> <<>>]
     ELSE IF new # <<>>
       THEN [cmd |-> "new_article", arg |-> rstrip(strip(new[1]), {".", "!"})]
     ELSE IF rework # <<>>
       THEN [cmd |-> "rework", arg |-> rstrip(strip(rework[1]), {".", "!"})]
     ELSE [cmd |-> "question",
           arg |-> IF body # <<>> THEN subject \o <<"\n">> \o body ELSE subject]

\* ----------------------------------------------------------------- catalog

\* topics.json: the ordered topic records (slug, title, category, keywords).
Topics ==
  << [slug |-> <<"l","o","b">>,
      title |-> <<"L","o","b">>,
      category |-> "Grundschlaege",
      keywords |-> << <<"h","o","c","h">> >>],
     [slug |-> <<"v","o","l","l","e","y">>,
      title |-> <<"V","o","l","l","e","y">>,
      category |-> "Netzspiel",
      keywords |-> << <<"n","e","t","z">> >>],
     [slug |-> <<"s","l","i","c","e">>,
      title |-> <<"S","l","i","c","e">>,
      category |-> "Grundschlaege",
      keywords |-> << <<"s","p","i","n">> >>] >>

\* site["base_url"] followed by /artikel/<slug>.html
ArticleUrl(topic) == <<"base_url", "artikel", topic.slug>>

\* The search terms a new-article or rework command carries.
Terms ==
  { <<"L","o","b">>,
    <<"d","e","n"," ","s","l","i","c","e">>,
    <<"G","o","l","f">> }

NoTopic == [slug |-> <<>>]

\* ---------------------------------------------------------- topic matching

\* The keywords of a topic, lower-cased and joined by blanks.
KeywordsLower(topic) ==
  join([i \in DOMAIN topic.keywords |-> lower(topic.keywords[i])])

\* find_topic with a surface of slug and keywords only.
AllText_NoTitle(topic) ==
  replace(topic.slug, "-", " ") \o <<" ">> \o KeywordsLower(topic)

\* find_topic: all_text = f"{title_lower} {slug_lower} {keywords_lower}"
AllText(topic) ==
  lower(topic.title) \o <<" ">> \o replace(topic.slug, "-", " ")
    \o <<" ">> \o KeywordsLower(topic)

\* find_topic: the contribution of one search word to a topic's score.
WordScore(word, all_text) ==
  IF Len(word) < 3 THEN 0
  ELSE IF In(word, all_text) THEN 2
  ELSE IF \E w \in Range(split(all_text)) : In(word, w) \/ In(w, word) THEN 1
  ELSE 0

RECURSIVE SumScores(_, _)
SumScores(words, all_text) ==
  IF words = {} THEN 0
  ELSE LET w == CHOOSE x \in words : TRUE
       IN WordScore(w, all_text) + SumScores(words \ {w}, all_text)

\* find_topic: `for word in search_words`, the set taken in the given order.
RECURSIVE SumInOrder(_, _)
SumInOrder(order, all_text) ==
  IF order = <<>> THEN 0
  ELSE WordScore(order[1], all_text) + SumInOrder(Tail(order), all_text)

\* find_topic: the score of one topic for a search term.
TopicScore(search_term, topic) ==
  SumScores(Range(split(lower(search_term))), AllText(topic))

\* find_topic with `score >= best_score`: of the topics tied for the highest
\* score the last one is kept.
RECURSIVE BestFrom_LastTie(_, _, _, _, _)
BestFrom_LastTie(search_term, topics, i, best_match, best_score) ==
  IF i > Len(topics) THEN best_match
  ELSE LET score == TopicScore(search_term, topics[i])
       IN IF score >= best_score /\ score > 0
            THEN BestFrom_LastTie(search_term, topics, i + 1, topics[i], score)
            ELSE BestFrom_LastTie(search_term, topics, i + 1, best_match, best_score)

\* find_topic: the scan over the catalog, keeping the best match so far.
RECURSIVE BestFrom(_, _, _, _, _)
BestFrom(search_term, topics, i, best_match, best_score) ==
  IF i > Len(topics) THEN best_match
  ELSE LET score == TopicScore(search_term, topics[i])
       IN IF score > best_score
            THEN BestFrom(search_term, topics, i + 1, topics[i], score)
            ELSE BestFrom(search_term, topics, i + 1, best_match, best_score)

\* find_topic with `return best_match` and the first topic as the match to beat.
find_topic_FirstByDefault(search_term, topics) ==
  IF topics = <<>> THEN NoTopic
  ELSE BestFrom(search_term, topics, 1, topics[1], 0)

find_topic(search_term, topics) == BestFrom(search_term, topics, 1, NoTopic, 0)

\* find_topic against the catalog, for each search term of the model.
Resolve == [t \in Terms |-> find_topic(t, Topics)]

\* ------------------------------------------------------------ the program

VARIABLES
  pc,            \* the controller's position in main / poll_once / a handler
  ARTIKEL_DIR,   \* the stems of the *.html files in docs/artikel
  api_key,       \* whether CLAUDE_API_KEY_1 is set in the environment
  latency,       \* seconds the IMAP round trip of one poll step takes
  since,         \* time.time() - last_auto_generate, capped at the interval
  unseen,        \* poll_once: messages of the batch not yet fetched
  mail_data,     \* poll_once: the message being handled
  run,           \* the handler's locals: topic, attempt, feedback, score, ...
  reply_text,    \* the reply the handler returned
  sent,          \* the mails sent for the current message or auto step
  err,           \* the exception in flight or handled for the current message
  call,          \* a function called on its own: its name and arguments
  ret,           \* what that call returned
  clock          \* main's loop turn, and the time since auto_generate_next
                 \* was last called and whether that call raised

vars ==
  <<pc, ARTIKEL_DIR, api_key, latency, since, unseen, mail_data, run,
    reply_text, sent, err, call, ret, clock>>

Slugs == {Topics[i].slug : i \in DOMAIN Topics}

OtherSender == "someone@example.com"

NoMail == [from |-> "", cmd |-> "none", arg |-> <<>>, body |-> ""]

NoRun ==
  [kind |-> "none", topic |-> NoTopic, attempt |-> 0, feedback |-> "",
   quality_score |-> 0, article_data |-> [draft |-> 0, feedback |-> ""],
   image_file |-> "unset",
   image_outcome |-> "none", rendered |-> <<>>, publish |-> "none",
   steps |-> <<>>, scores |-> <<>>, unscored |-> FALSE]

NoReply == [kind |-> "none"]

NoErr == [step |-> "none", how |-> "none"]

NoCall == [fn |-> "none"]

\* main before its loop: the first turn, auto_generate_next not yet called
\* (since_auto < 0).
NoClock == [iteration |-> 1, since_auto |-> 0 - 1, failed |-> FALSE]

\* dt seconds pass: the time since the last call of auto_generate_next grows
\* (kept up to the interval, beyond which it makes no difference).
Tick(c, dt) ==
  [c EXCEPT !.since_auto =
     IF @ < 0 THEN @ ELSE Min(@ + dt, AUTO_GENERATE_INTERVAL)]

\* auto_generate_next is called now.
AutoCalled(c) == [c EXCEPT !.since_auto = 0]

NoRet == [kind |-> "none"]

\* What parse_command returns for the messages of the model, with the body
\* the message had: (command, argument).
Commands ==
  {[cmd |-> c, arg |-> <<>>, body |-> "text"] : c \in {"topic_list", "status", "question"}}
    \cup {[cmd |-> "new_article", arg |-> t, body |-> "text"] : t \in Terms}
    \cup {[cmd |-> "rework", arg |-> t, body |-> b] : t \in Terms, b \in {"", "text"}}

\* The messages parse_email can return.
Messages ==
  {[from |-> f, cmd |-> c.cmd, arg |-> c.arg, body |-> c.body] :
     f \in {ALLOWED_SENDER, OtherSender}, c \in Commands}

\* The texts call_claude returns to check_quality.
Responses ==
  {
    <<"K","O","R","R","E","K","T","H","E","I","T",":"," ","8","\n","G","E","S","A","M","T",":"," ","8","\n","F","E","E","D","B","A","C","K",":"," ","g","u","t">>,   \* a full response
    <<"G","E","S","A","M","T",":"," ","5","\n","F","E","E","D","B","A","C","K",":"," ","m","e","h","r">>,   \* a failing score
    <<"G","E","S","A","M","T",":"," ","6","/","1","0">>,   \* a score out of ten
    <<"G","E","S","A","M","T",":"," ","7","\n">>,   \* the lowest passing score
    <<"F","E","E","D","B","A","C","K",":"," ","o","k">>,   \* no GESAMT line
    <<"G","E","S","A","M","T",":"," ","g","u","t">>,   \* a GESAMT line without a number
    <<"G","E","S","A","M","T",":">>,   \* an empty GESAMT line
    <<"N","o","t","e","\n"," ","G","E","S","A","M","T",":"," ","5">>,   \* GESAMT not at the start of its line
    <<"G","E","S","A","M","T",":"," ","5","\n","G","E","S","A","M","T",":"," ","x">>,   \* a number, then a line without one
    <<>>    \* an empty response
  }

\* call_claude: sys.exit(1) without the key, else the text or a raised error.
CallClaudeOutcomes == IF api_key THEN {"ok", "raise"} ELSE {"exit"}

\* ------------------------------------------------------------- pure parts

\* The check on a path that no artifact has.
Exists_OtherPath(dir, topic) == FALSE

\* existing.exists() for ARTIKEL_DIR / f"{slug}.html"
Exists(dir, topic) == topic.slug \in dir

\* auto_generate_next without the filter on existing artifacts.
Remaining_Unfiltered(dir, topics) == topics

\* auto_generate_next: remaining = [t for t in topics if t["slug"] not in existing]
Remaining(dir, topics) == SelectSeq(topics, LAMBDA t : t.slug \notin dir)

\* handle_topic_list with a heading before every topic.
RECURSIVE TopicLines_HeadingEveryTopic(_, _, _, _)
TopicLines_HeadingEveryTopic(topics, existing, i, current_cat) ==
  IF i > Len(topics) THEN <<>>
  ELSE LET t == topics[i]
           status == IF t.slug \in existing THEN "[X]" ELSE "[ ]"
       IN << <<"==", t.category>>, <<status, t.title>> >>
            \o TopicLines_HeadingEveryTopic(topics, existing, i + 1, t.category)

\* handle_topic_list: the lines of the reply.
RECURSIVE TopicLines(_, _, _, _)
TopicLines(topics, existing, i, current_cat) ==
  IF i > Len(topics) THEN <<>>
  ELSE LET t == topics[i]
           heading == IF t.category # current_cat
                        THEN << <<"==", t.category>> >> ELSE <<>>
           status == IF t.slug \in existing THEN "[X]" ELSE "[ ]"
       IN heading \o << <<status, t.title>> >>
            \o TopicLines(topics, existing, i + 1, t.category)

handle_topic_list(topics, existing) ==
  LET body == TopicLines(topics, existing, 1, "")
      done == Cardinality({i \in DOMAIN topics : topics[i].slug \in existing})
  IN [kind |-> "topic_list",
      lines |-> << <<"title">>, <<"Fortschritt", done, Len(topics)>> >> \o body]

\* handle_status: the categories dict, in insertion order.
RECURSIVE CategoryCounts(_, _, _, _)
CategoryCounts(topics, existing, i, categories) ==
  IF i > Len(topics) THEN categories
  ELSE LET t == topics[i]
           d == IF t.slug \in existing THEN 1 ELSE 0
           known == \E k \in DOMAIN categories : categories[k].cat = t.category
           next ==
             IF known
               THEN [k \in DOMAIN categories |->
                       IF categories[k].cat = t.category
                         THEN [categories[k] EXCEPT !.total = @ + 1, !.done = @ + d]
                         ELSE categories[k]]
               ELSE Append(categories, [cat |-> t.category, total |-> 1, done |-> d])
       IN CategoryCounts(topics, existing, i + 1, next)

\* handle_status: done = len(existing), the number of *.html files, and
\* done*100//total, a ZeroDivisionError for an empty catalog.
handle_status(topics, existing) ==
  IF Len(topics) = 0
    THEN [kind |-> "raise", error |-> "ZeroDivisionError"]
    ELSE [kind |-> "status",
          done |-> Cardinality(existing),
          total |-> Len(topics),
          percent |-> (Cardinality(existing) * 100) \div Len(topics),
          categories |-> CategoryCounts(topics, existing, 1, <<>>)]

\* str.split(sep) for a separator of one character.
RECURSIVE SplitOn(_, _)
SplitOn(s, sep) ==
  IF \A i \in DOMAIN s : s[i] # sep THEN <<s>>
  ELSE LET k == CHOOSE i \in DOMAIN s : s[i] = sep /\ \A j \in 1..(i - 1) : s[j] # sep
       IN <<SubSeq(s, 1, k - 1)>> \o SplitOn(SubSeq(s, k + 1, Len(s)), sep)

Digits == <<"0","1","2","3","4","5","6","7","8","9">>

RECURSIVE Decimal(_)
Decimal(s) ==
  IF s = <<>> THEN 0
  ELSE 10 * Decimal(SubSeq(s, 1, Len(s) - 1))
         + (CHOOSE d \in 0..9 : Digits[d + 1] = s[Len(s)])

\* int(text): blanks around, a sign, decimal digits; anything else is a
\* ValueError (ok is FALSE).
int(text) ==
  LET t == strip(text)
      signed == t # <<>> /\ t[1] \in {"+", "-"}
      digits == IF signed THEN Tail(t) ELSE t
  IN IF digits # <<>> /\ \A i \in DOMAIN digits : digits[i] \in Range(Digits)
       THEN [ok |-> TRUE,
             value |-> IF signed /\ t[1] = "-" THEN 0 - Decimal(digits)
                       ELSE Decimal(digits)]
       ELSE [ok |-> FALSE, value |-> 0]

GesamtTag == <<"G","E","S","A","M","T",":">>

FeedbackTag == <<"F","E","E","D","B","A","C","K",":">>

\* check_quality: the loop over the lines of the response. A GESAMT line
\* whose number does not parse leaves the score as it is.
RECURSIVE ScanLines(_, _, _, _)
ScanLines(lines, i, score, feedback) ==
  IF i > Len(lines) THEN [score |-> score, feedback |-> feedback]
  ELSE LET line == lines[i]
           n == IF StartsAt(line, 1, GesamtTag)
                  THEN int(strip(SplitOn(strip(SplitOn(line, ":")[2]), "/")[1]))
                  ELSE [ok |-> FALSE, value |-> 0]
           fb == IF StartsAt(line, 1, FeedbackTag)
                   THEN strip(SubSeq(line, Len(FeedbackTag) + 1, Len(line)))
                   ELSE feedback
       IN ScanLines(lines, i + 1, IF n.ok THEN n.value ELSE score, fb)

\* The gate with 7 failing.
Passed_Above(score) == score > PassScore

\* check_quality: passed = score >= 7
Passed(score) == score >= PassScore

\* check_quality: (passed, score, feedback) from the response.
check_quality(raw) ==
  LET r == ScanLines(SplitOn(strip(raw), "\n"), 1, DefaultScore, <<>>)
  IN [passed |-> Passed(r.score), score |-> r.score, feedback |-> r.feedback]

Quality == [raw \in Responses |-> check_quality(raw)]

QualityScore(raw) == Quality[raw].score

\* A line that names an overall score: it starts with GESAMT: and what
\* stands between that and the next ":" or "/" is a decimal number.
NamesScore(line) ==
  /\ StartsAt(line, 1, GesamtTag)
  /\ LET rest == SubSeq(line, Len(GesamtTag) + 1, Len(line))
         stops == {i \in DOMAIN rest : rest[i] \in {":", "/"}} \cup {Len(rest) + 1}
         stop == CHOOSE i \in stops : \A j \in stops : i <= j
     IN int(SubSeq(rest, 1, stop - 1)).ok

\* The responses without a parsable overall score.
Unscored ==
  {raw \in Responses :
     LET lines == SplitOn(strip(raw), "\n")
     IN \A i \in DOMAIN lines : ~NamesScore(lines[i])}

\* ------------------------------------------------------------------- Init

TypeOK ==
  /\ pc \in {"poll", "loop", "answer", "research", "draft", "check", "image",
             "render", "build", "publish", "send", "error_reply", "auto_check",
             "auto", "notify", "sleep", "exited",
             "main", "next_topic", "check_urls", "batch_build", "summary", "done"}
  /\ ARTIKEL_DIR \subseteq Slugs
  /\ api_key \in BOOLEAN
  /\ since \in 0..AUTO_GENERATE_INTERVAL
  /\ unseen \in 0..MaxBatch
  /\ Len(sent) <= 2
  /\ clock.iteration \in {1, 2}
  /\ clock.since_auto \in (0 - 1)..AUTO_GENERATE_INTERVAL
  /\ clock.failed \in BOOLEAN

\* main: the output directory holds any of the catalog's artifacts; the first
\* auto-generation is due at once (last_auto_generate = now - interval).
InitProgram ==
  /\ pc = "poll"
  /\ ARTIKEL_DIR \in SUBSET Slugs
  /\ api_key \in BOOLEAN
  /\ since = AUTO_GENERATE_INTERVAL
  /\ unseen = 0
  /\ mail_data = NoMail
  /\ run = NoRun
  /\ reply_text = NoReply
  /\ sent = <<>>
  /\ err = NoErr
  /\ clock = NoClock

Init ==
  /\ InitProgram
  /\ latency = SlowPollRounds * POLL_INTERVAL
  /\ call = NoCall
  /\ ret = NoRet

\* ---------------------------------------------------------------- poll_once

\* The exception caught inside the run, which goes on with its next steps.
Raised_Continues(step, how) ==
  /\ err' = [step |-> step, how |-> how]
  /\ pc' = IF how = "exit" THEN "exited"
           ELSE IF step \in {"research_topic", "generate_article", "check_quality"}
             THEN "image"
           ELSE IF run.kind = "auto" THEN "sleep"
           ELSE "error_reply"

\* An exception leaves the handler: poll_once catches it per message and
\* auto_generate_next catches it around the pipeline; SystemExit is no
\* Exception and ends the process, and generate.main catches nothing.
Raised(step, how) ==
  /\ err' = [step |-> step, how |-> how]
  /\ pc' = IF how = "exit" \/ run.kind = "batch" THEN "exited"
           ELSE IF run.kind = "auto" THEN "sleep"
           ELSE "error_reply"

\* poll_once up to the for loop: load_config, imap_connect, fetch_unseen.
\* A failed connect returns; any other exception reaches main, which logs it.
PollStart ==
  /\ pc = "poll"
  /\ since' = Min(since + latency, AUTO_GENERATE_INTERVAL)
  /\ \E outcome \in {"ok", "load_config", "imap_connect", "fetch_unseen"} :
       IF outcome = "ok"
         THEN /\ unseen' \in 0..MaxBatch
              /\ pc' = "loop"
              /\ err' = NoErr
         ELSE /\ unseen' = 0
              /\ pc' = "auto_check"
              /\ err' = [step |-> outcome, how |-> "raise"]
  /\ mail_data' = NoMail
  /\ run' = NoRun
  /\ reply_text' = NoReply
  /\ sent' = <<>>
  /\ clock' = Tick(clock, latency)
  /\ UNCHANGED <<call, ret, ARTIKEL_DIR, api_key, latency>>

\* handle_new_article without its `if existing.exists()` return.
StartNewArticle_NoExistsCheck(m) ==
  LET topic == Resolve[m.arg]
  IN IF topic = NoTopic
       THEN /\ reply_text' = [kind |-> "no_topic", term |-> m.arg,
                              titles |-> [i \in DOMAIN Topics |-> Topics[i].title]]
            /\ run' = NoRun
            /\ pc' = "send"
     ELSE /\ reply_text' = NoReply
          /\ run' = [NoRun EXCEPT !.kind = "new_article", !.topic = topic,
                                  !.feedback = ""]
          /\ pc' = "research"

\* handle_new_article up to its first collaborator call.
StartNewArticle(m) ==
  LET topic == Resolve[m.arg]
  IN IF topic = NoTopic
       THEN /\ reply_text' = [kind |-> "no_topic", term |-> m.arg,
                              titles |-> [i \in DOMAIN Topics |-> Topics[i].title]]
            /\ run' = NoRun
            /\ pc' = "send"
     ELSE IF Exists(ARTIKEL_DIR, topic)
       THEN /\ reply_text' = [kind |-> "exists", title |-> topic.title,
                              url |-> ArticleUrl(topic)]
            /\ run' = NoRun
            /\ pc' = "send"
     ELSE /\ reply_text' = NoReply
          /\ run' = [NoRun EXCEPT !.kind = "new_article", !.topic = topic,
                                  !.feedback = ""]
          /\ pc' = "research"

\* handle_rework without its `if not existing.exists()` return.
StartRework_NoExistsCheck(m) ==
  LET topic == Resolve[m.arg]
  IN IF topic = NoTopic
       THEN /\ reply_text' = [kind |-> "no_topic", term |-> m.arg]
            /\ run' = NoRun
            /\ pc' = "send"
     ELSE /\ reply_text' = NoReply
          /\ run' = [NoRun EXCEPT !.kind = "rework", !.topic = topic,
                                  !.feedback = IF m.body # "" THEN "body"
                                               ELSE "default"]
          /\ pc' = "research"

\* handle_rework up to its first collaborator call.
StartRework(m) ==
  LET topic == Resolve[m.arg]
  IN IF topic = NoTopic
       THEN /\ reply_text' = [kind |-> "no_topic", term |-> m.arg]
            /\ run' = NoRun
            /\ pc' = "send"
     ELSE IF ~Exists(ARTIKEL_DIR, topic)
       THEN /\ reply_text' = [kind |-> "generate_first", title |-> topic.title,
                              term |-> m.arg]
            /\ run' = NoRun
            /\ pc' = "send"
     ELSE /\ reply_text' = NoReply
          /\ run' = [NoRun EXCEPT !.kind = "rework", !.topic = topic,
                                  !.feedback = IF m.body # "" THEN "body"
                                               ELSE "default"]
          /\ pc' = "research"

\* process_email: route the command to its handler.
ProcessEmail(m) ==
  CASE m.cmd = "topic_list" ->
         /\ reply_text' = handle_topic_list(Topics, ARTIKEL_DIR)
         /\ run' = NoRun
         /\ pc' = "send"
    [] m.cmd = "status" ->
         /\ reply_text' = handle_status(Topics, ARTIKEL_DIR)
         /\ run' = NoRun
         /\ pc' = "send"
    [] m.cmd = "new_article" -> StartNewArticle(m)
    [] m.cmd = "rework" -> StartRework(m)
    [] m.cmd = "question" ->
         /\ reply_text' = NoReply
         /\ run' = NoRun
         /\ pc' = "answer"

\* poll_once without its sender filter.
FromAllowedSender_Anyone(m) == TRUE

\* poll_once: `if mail_data["from"] != ALLOWED_SENDER: continue`
FromAllowedSender(m) == m.from = ALLOWED_SENDER

\* One turn of `for uid in unseen`: parse_email, the sender filter, and
\* process_email up to the handler's first collaborator call. parse_email runs
\* outside the per-message try: what it raises leaves poll_once.
NextMessage ==
  /\ pc = "loop"
  /\ unseen > 0
  /\ unseen' = unseen - 1
  /\ sent' = <<>>
  /\ \E parsed \in {"ok", "none", "raise"} :
       CASE parsed = "none" ->
              /\ mail_data' = NoMail
              /\ err' = NoErr
              /\ run' = NoRun
              /\ reply_text' = NoReply
              /\ pc' = "loop"
         [] parsed = "raise" ->
              /\ mail_data' = NoMail
              /\ err' = [step |-> "parse_email", how |-> "raise"]
              /\ run' = NoRun
              /\ reply_text' = NoReply
              /\ pc' = "auto_check"
         [] parsed = "ok" ->
              \E m \in Messages :
                /\ mail_data' = m
                /\ err' = NoErr
                /\ IF ~FromAllowedSender(m)
                     THEN /\ run' = NoRun
                          /\ reply_text' = NoReply
                          /\ pc' = "loop"
                     ELSE ProcessEmail(m)
  /\ UNCHANGED <<clock, call, ret, ARTIKEL_DIR, api_key, latency, since>>

\* The for loop is done: finally imap.logout(), and poll_once returns.
PollEnd ==
  /\ pc = "loop"
  /\ unseen = 0
  /\ pc' = "auto_check"
  /\ UNCHANGED <<clock, call, ret, ARTIKEL_DIR, api_key, latency, since, unseen, mail_data, run,
                 reply_text, sent, err>>

\* handle_question: call_claude, and the answer is the reply.
Answer ==
  /\ pc = "answer"
  /\ \E outcome \in CallClaudeOutcomes :
       IF outcome = "ok"
         THEN /\ reply_text' = [kind |-> "answer"]
              /\ pc' = "send"
              /\ err' = err
         ELSE /\ Raised("call_claude", outcome)
              /\ reply_text' = reply_text
  /\ UNCHANGED <<clock, call, ret, ARTIKEL_DIR, api_key, latency, since, unseen, mail_data, run, sent>>

\* send_reply: what the SMTP session can come to. The server has the mail
\* once sendmail's DATA is accepted; leaving the `with` block sends QUIT and
\* raises SMTPResponseException on an answer other than 221, and the answer
\* to DATA itself may be lost to the 15 s timeout after the server took the
\* mail: send_reply can raise with the mail delivered.
SendOutcomes == {"ok", "raise", "delivered_raise"}

Delivered(outcome) == outcome \in {"ok", "delivered_raise"}

\* poll_once: send_reply with the handler's reply; a failure is an exception
\* of the per-message try.
SendReply ==
  /\ pc = "send"
  /\ \E outcome \in SendOutcomes :
       /\ sent' = IF Delivered(outcome)
                    THEN Append(sent, [to |-> mail_data.from, body |-> reply_text])
                    ELSE sent
       /\ IF outcome = "ok"
            THEN /\ pc' = "loop"
                 /\ err' = err
            ELSE Raised("send_reply", "raise")
  /\ UNCHANGED <<clock, call, ret, ARTIKEL_DIR, api_key, latency, since, unseen, mail_data, run,
                 reply_text>>

\* poll_once: except Exception: send the traceback; a failure of that send is
\* swallowed.
ErrorReply ==
  /\ pc = "error_reply"
  /\ \E outcome \in SendOutcomes :
       sent' = IF Delivered(outcome)
                 THEN Append(sent, [to |-> mail_data.from,
                                    body |-> [kind |-> "error", trace |-> err.step]])
                 ELSE sent
  /\ pc' = "loop"
  /\ UNCHANGED <<clock, call, ret, ARTIKEL_DIR, api_key, latency, since, unseen, mail_data, run,
                 reply_text, err>>

\* ------------------------------------------------------------ the pipeline
\* handle_new_article, handle_rework and auto_generate_next each hold a copy of
\* these steps; run.kind says which copy is running.

Step(name) == [run EXCEPT !.steps = Append(@, name)]

\* research_topic: one call_claude.
Research ==
  /\ pc = "research"
  /\ \E outcome \in CallClaudeOutcomes :
       IF outcome = "ok"
         THEN /\ run' = [Step("research") EXCEPT !.attempt = 1]
              /\ pc' = "draft"
              /\ err' = err
         ELSE /\ run' = Step("research")
              /\ Raised("research_topic", outcome)
  /\ UNCHANGED <<clock, call, ret, ARTIKEL_DIR, api_key, latency, since, unseen, mail_data,
                 reply_text, sent>>

\* generate_article(topic, research_notes, feedback): one call_claude; the
\* draft is conditioned on the current feedback.
Draft ==
  /\ pc = "draft"
  /\ \E outcome \in CallClaudeOutcomes :
       IF outcome = "ok"
         THEN /\ run' = [Step("draft") EXCEPT
                           !.article_data = [draft |-> run.attempt,
                                             feedback |-> run.feedback]]
              /\ pc' = "check"
              /\ err' = err
         ELSE /\ run' = Step("draft")
              /\ Raised("generate_article", outcome)
  /\ UNCHANGED <<clock, call, ret, ARTIKEL_DIR, api_key, latency, since, unseen, mail_data,
                 reply_text, sent>>

\* The critique check_quality returns for the draft of an attempt.
Critique(attempt) == IF attempt = 1 THEN "critique1" ELSE "critique2"

\* The loop adding the critique to what it had: a rework run keeps its seed.
NextFeedback_KeepsSeed(kind, feedback, passed, critique) ==
  IF feedback = "" THEN critique ELSE feedback

\* The feedback after a quality check: handle_rework keeps its feedback when
\* the draft passed, the other two always take the critique.
NextFeedback(kind, feedback, passed, critique) ==
  IF kind = "rework" /\ passed THEN feedback ELSE critique

\* The loop as generate.main has it: range(3).
AfterCheck_ThreeAttempts(passed, attempt) ==
  IF passed \/ attempt >= 3 THEN "image" ELSE "draft"

\* The loop with a blocking gate: a run whose last attempt failed is given up.
AfterCheck_GateBlocks(passed, attempt) ==
  IF passed THEN "image"
  ELSE IF attempt >= MaxAttempts THEN "error_reply"
  ELSE "draft"

\* The handlers' loop followed by render_article at once, the image after it.
AfterCheck_RenderFirst(passed, attempt) ==
  IF passed \/ attempt >= MaxAttempts THEN "render" ELSE "draft"

\* generate.main with one more retry.
main_AfterCheck_FourAttempts(passed, attempt) ==
  IF passed \/ attempt >= MainAttempts + 1 THEN "image" ELSE "draft"

\* generate.main: the loop `for attempt in range(3)` after a quality check.
main_AfterCheck(passed, attempt) ==
  IF passed \/ attempt >= MainAttempts THEN "image" ELSE "draft"

\* The loop `for attempt in range(2)` after a quality check: break when the
\* draft passed, else the next attempt if there is one.
AfterCheck(passed, attempt) ==
  IF passed \/ attempt >= MaxAttempts THEN "image" ELSE "draft"

\* check_quality and the rest of the loop body.
Check ==
  /\ pc = "check"
  /\ \E outcome \in CallClaudeOutcomes :
       IF outcome = "ok"
         THEN \E raw \in Responses :
                LET score == QualityScore(raw)
                    passed == Quality[raw].passed
                    next == IF run.kind = "batch"
                              THEN main_AfterCheck(passed, run.attempt)
                              ELSE AfterCheck(passed, run.attempt)
                IN /\ run' = [Step("check") EXCEPT
                                !.quality_score = score,
                                !.scores = Append(@, score),
                                !.unscored = raw \in Unscored,
                                !.feedback = NextFeedback(run.kind, run.feedback,
                                                          passed, Critique(run.attempt)),
                                !.attempt = IF next = "draft" THEN @ + 1 ELSE @]
                   /\ pc' = next
                   /\ err' = err
         ELSE /\ run' = Step("check")
              /\ Raised("check_quality", outcome)
  /\ UNCHANGED <<clock, call, ret, ARTIKEL_DIR, api_key, latency, since, unseen, mail_data,
                 reply_text, sent>>

\* generate_image with its try too narrow: an exception of the image call
\* leaves it.
generate_image_Propagates(outcome) ==
  IF outcome = "ok" THEN "jpg"
  ELSE IF outcome = "raised" THEN "raise"
  ELSE "None"

\* generate_image: the file name, or None without a key, for an empty
\* response and for any exception raised inside its try. "raise" would be an
\* exception leaving generate_image.
generate_image(outcome) ==
  IF outcome = "ok" THEN "jpg" ELSE "None"

\* The handlers call generate_image outside any try of their own.
Image ==
  /\ pc = "image"
  /\ \E outcome \in {"ok", "no_key", "empty", "raised"} :
       LET image_file == generate_image(outcome)
       IN IF image_file = "raise"
            THEN /\ run' = [Step("image") EXCEPT !.image_outcome = outcome]
                 /\ Raised("generate_image", "raise")
            ELSE /\ run' = [Step("image") EXCEPT !.image_file = image_file,
                                                 !.image_outcome = outcome]
                 /\ pc' = "render"
                 /\ err' = err
  /\ UNCHANGED <<clock, call, ret, ARTIKEL_DIR, api_key, latency, since, unseen, mail_data,
                 reply_text, sent>>

\* render_article naming the file after the title.
out_path_Title(topic) == topic.title

\* render_article: out_path = ARTIKEL_DIR / f"{topic['slug']}.html", as a stem.
out_path(topic) == topic.slug

\* render_article: writes docs/artikel/<slug>.html from the draft and the image.
Render ==
  /\ pc = "render"
  /\ \E outcome \in {"ok", "raise"} :
       IF outcome = "ok"
         THEN /\ ARTIKEL_DIR' = ARTIKEL_DIR \cup {out_path(run.topic)}
              /\ run' = [Step("render") EXCEPT
                           !.rendered = << [slug |-> run.topic.slug,
                                            content |-> run.article_data,
                                            image |-> run.image_file] >>]
              /\ pc' = IF run.kind = "batch" THEN "check_urls" ELSE "build"
              /\ err' = err
         ELSE /\ ARTIKEL_DIR' = ARTIKEL_DIR
              /\ run' = Step("render")
              /\ Raised("render_article", "raise")
  /\ UNCHANGED <<clock, call, ret, api_key, latency, since, unseen, mail_data, reply_text, sent>>

\* build_site: index, about page, sitemap, robots.
Build ==
  /\ pc = "build"
  /\ \E outcome \in {"ok", "raise"} :
       IF outcome = "ok"
         THEN /\ run' = Step("build")
              /\ pc' = "publish"
              /\ err' = err
         ELSE /\ run' = Step("build")
              /\ Raised("build_site", "raise")
  /\ UNCHANGED <<clock, call, ret, ARTIKEL_DIR, api_key, latency, since, unseen, mail_data,
                 reply_text, sent>>

\* The handler's reply after the pipeline.
PipelineReply(r) ==
  IF r.kind = "new_article"
    THEN [kind |-> "created", title |-> r.topic.title, score |-> r.quality_score,
          image |-> r.image_file # "None", url |-> ArticleUrl(r.topic)]
    ELSE [kind |-> "reworked", title |-> r.topic.title, score |-> r.quality_score,
          url |-> ArticleUrl(r.topic)]

\* git_push: add, commit, pull --rebase, push, each a subprocess.run with
\* check=True. Only CalledProcessError is caught; what else subprocess.run
\* raises (OSError: no git binary, no working directory) leaves git_push.
GitPushContains(how) == how = "CalledProcessError"

Publish ==
  /\ pc = "publish"
  /\ \E sub \in {"add", "commit", "pull", "push"},
        how \in {"ok", "CalledProcessError", "OSError"} :
       IF how = "ok" \/ GitPushContains(how)
         THEN /\ run' = [Step("publish") EXCEPT
                           !.publish = IF how = "ok" THEN "ok" ELSE sub]
              /\ err' = err
              /\ IF run.kind = "auto"
                   THEN /\ pc' = "notify"
                        /\ reply_text' = reply_text
                   ELSE /\ pc' = "send"
                        /\ reply_text' = PipelineReply(run)
         ELSE /\ run' = [Step("publish") EXCEPT !.publish = sub]
              /\ reply_text' = reply_text
              /\ Raised("git_push", "raise")
  /\ UNCHANGED <<clock, call, ret, ARTIKEL_DIR, api_key, latency, since, unseen, mail_data, sent>>

\* ------------------------------------------------------ auto_generate_next

\* main with the interval check inside the batch loop: the autonomous step may
\* start while messages of the batch are left.
AutoCheck_DuringPoll ==
  /\ pc \in {"auto_check", "loop"}
  /\ IF since >= AUTO_GENERATE_INTERVAL
       THEN /\ since' = 0
            /\ pc' = "auto"
       ELSE /\ since' = since
            /\ pc' = "sleep"
  /\ unseen' = 0
  /\ mail_data' = NoMail
  /\ run' = NoRun
  /\ reply_text' = NoReply
  /\ sent' = <<>>
  /\ err' = NoErr
  /\ clock' = IF since >= AUTO_GENERATE_INTERVAL THEN AutoCalled(clock) ELSE clock
  /\ UNCHANGED <<call, ret, ARTIKEL_DIR, api_key, latency>>

\* main without `last_auto_generate = time.time()`.
AutoCheck_NoReset ==
  /\ pc = "auto_check"
  /\ since' = since
  /\ pc' = IF since >= AUTO_GENERATE_INTERVAL THEN "auto" ELSE "sleep"
  /\ unseen' = 0
  /\ mail_data' = NoMail
  /\ run' = NoRun
  /\ reply_text' = NoReply
  /\ sent' = <<>>
  /\ err' = NoErr
  /\ clock' = IF since >= AUTO_GENERATE_INTERVAL THEN AutoCalled(clock) ELSE clock
  /\ UNCHANGED <<call, ret, ARTIKEL_DIR, api_key, latency>>

\* main with `last_auto_generate = time.time()` on every turn of the loop, due
\* or not.
AutoCheck_ResetsEveryTurn ==
  /\ pc = "auto_check"
  /\ since' = 0
  /\ pc' = IF since >= AUTO_GENERATE_INTERVAL THEN "auto" ELSE "sleep"
  /\ unseen' = 0
  /\ mail_data' = NoMail
  /\ run' = NoRun
  /\ reply_text' = NoReply
  /\ sent' = <<>>
  /\ err' = NoErr
  /\ clock' = IF since >= AUTO_GENERATE_INTERVAL THEN AutoCalled(clock) ELSE clock
  /\ UNCHANGED <<call, ret, ARTIKEL_DIR, api_key, latency>>

\* main: `if time.time() - last_auto_generate >= AUTO_GENERATE_INTERVAL`,
\* after poll_once returned or main logged its exception.
AutoCheck ==
  /\ pc = "auto_check"
  /\ IF since >= AUTO_GENERATE_INTERVAL
       THEN /\ since' = 0
            /\ pc' = "auto"
       ELSE /\ since' = since
            /\ pc' = "sleep"
  /\ unseen' = 0
  /\ mail_data' = NoMail
  /\ run' = NoRun
  /\ reply_text' = NoReply
  /\ sent' = <<>>
  /\ err' = NoErr
  /\ clock' = IF since >= AUTO_GENERATE_INTERVAL THEN AutoCalled(clock) ELSE clock
  /\ UNCHANGED <<call, ret, ARTIKEL_DIR, api_key, latency>>

\* auto_generate_next up to the try: load_config, the remaining topics, and
\* the first of them. load_config is outside the try: main logs what it raises.
AutoStart ==
  /\ pc = "auto"
  /\ \E outcome \in {"ok", "raise"} :
       IF outcome = "raise"
         THEN /\ err' = [step |-> "load_config", how |-> "raise"]
              /\ run' = run
              /\ pc' = "sleep"
         ELSE LET remaining == Remaining(ARTIKEL_DIR, Topics)
              IN /\ err' = err
                 /\ IF remaining = <<>>
                      THEN /\ run' = run
                           /\ pc' = "sleep"
                      ELSE /\ run' = [NoRun EXCEPT !.kind = "auto",
                                                   !.topic = remaining[1],
                                                   !.feedback = ""]
                           /\ pc' = "research"
  /\ UNCHANGED <<clock, call, ret, ARTIKEL_DIR, api_key, latency, since, unseen, mail_data,
                 reply_text, sent>>

\* auto_generate_next: the notification; a failed send is caught with the rest.
Notify ==
  /\ pc = "notify"
  /\ \E outcome \in SendOutcomes :
       /\ sent' = IF Delivered(outcome)
                    THEN Append(sent,
                           [to |-> ALLOWED_SENDER,
                            body |-> [kind |-> "auto", title |-> run.topic.title,
                                      score |-> run.quality_score,
                                      image |-> run.image_file # "None",
                                      url |-> ArticleUrl(run.topic),
                                      remaining_count |->
                                        Len(Remaining(ARTIKEL_DIR, Topics))]])
                    ELSE sent
       /\ err' = IF outcome = "ok" THEN err
                 ELSE [step |-> "send_reply", how |-> "raise"]
  /\ pc' = "sleep"
  /\ UNCHANGED <<clock, call, ret, ARTIKEL_DIR, api_key, latency, since, unseen, mail_data, run,
                 reply_text>>

\* main: time.sleep(POLL_INTERVAL), and the next turn of `while True`.
Sleep ==
  /\ pc = "sleep"
  /\ since' = Min(since + POLL_INTERVAL, AUTO_GENERATE_INTERVAL)
  /\ pc' = "poll"
  /\ unseen' = 0
  /\ mail_data' = NoMail
  /\ run' = NoRun
  /\ reply_text' = NoReply
  /\ sent' = <<>>
  /\ err' = NoErr
  /\ clock' = [Tick(clock, POLL_INTERVAL) EXCEPT
                 !.iteration = 2,
                 !.failed = IF clock.since_auto = 0 THEN err # NoErr ELSE @]
  /\ UNCHANGED <<call, ret, ARTIKEL_DIR, api_key, latency>>

Next ==
  \/ PollStart
  \/ NextMessage
  \/ PollEnd
  \/ Answer
  \/ SendReply
  \/ ErrorReply
  \/ Research
  \/ Draft
  \/ Check
  \/ Image
  \/ Render
  \/ Build
  \/ Publish
  \/ AutoCheck
  \/ AutoStart
  \/ Notify
  \/ Sleep

Spec == Init /\ [][Next]_vars

\* ------------------------------------------------------------ generate.main
\* The batch generator, run from the command line: it shares research_topic,
\* generate_article, check_quality, generate_image and render_article with the
\* controller (run.kind = "batch") and has its own loop around them. call holds
\* its arguments and its list of topics, ret the results it collects.

\* --count N, or --all as the length of the catalog.
Counts == (1..MaxCount) \cup {Len(Topics)}

\* pick_next_topics: remaining[:count]
pick_next_topics(dir, topics, count) ==
  LET remaining == Remaining(dir, topics)
  IN SubSeq(remaining, 1, Min(count, Len(remaining)))

InitBatch ==
  /\ pc = "main"
  /\ ARTIKEL_DIR \in SUBSET Slugs
  /\ api_key \in BOOLEAN
  /\ latency = 0
  /\ since = 0
  /\ unseen = 0
  /\ mail_data = NoMail
  /\ run = NoRun
  /\ reply_text = NoReply
  /\ sent = <<>>
  /\ err = NoErr
  /\ clock = NoClock
  /\ \E count \in Counts :
       call = [fn |-> "main", count |-> count, to_generate |-> <<>>, i |-> 0]
  /\ ret = [kind |-> "results", results |-> <<>>]

\* main up to its for loop: load_config and pick_next_topics.
BatchStart ==
  /\ pc = "main"
  /\ \E outcome \in {"ok", "raise"} :
       IF outcome = "ok"
         THEN /\ call' = [call EXCEPT !.to_generate =
                            pick_next_topics(ARTIKEL_DIR, Topics, call.count)]
              /\ pc' = IF pick_next_topics(ARTIKEL_DIR, Topics, call.count) = <<>>
                         THEN "batch_build" ELSE "next_topic"
              /\ err' = err
         ELSE /\ call' = call
              /\ err' = [step |-> "load_config", how |-> "raise"]
              /\ pc' = "exited"
  /\ UNCHANGED <<clock, ret, ARTIKEL_DIR, api_key, latency, since, unseen, mail_data, run,
                 reply_text, sent>>

\* One turn of `for i, topic in enumerate(to_generate, 1)`, up to research_topic.
BatchNextTopic ==
  /\ pc = "next_topic"
  /\ IF call.i < Len(call.to_generate)
       THEN /\ call' = [call EXCEPT !.i = @ + 1]
            /\ run' = [NoRun EXCEPT !.kind = "batch",
                                    !.topic = call.to_generate[call.i + 1],
                                    !.feedback = ""]
            /\ pc' = "research"
       ELSE /\ call' = call
            /\ run' = NoRun
            /\ pc' = "batch_build"
  /\ UNCHANGED <<clock, ret, ARTIKEL_DIR, api_key, latency, since, unseen, mail_data,
                 reply_text, sent, err>>

\* check_urls on the rendered page, and results.append.
BatchCheckUrls ==
  /\ pc = "check_urls"
  /\ \E outcome \in {"ok", "broken", "raise"} :
       IF outcome = "raise"
         THEN /\ ret' = ret
              /\ err' = [step |-> "check_urls", how |-> "raise"]
              /\ pc' = "exited"
         ELSE /\ ret' = [ret EXCEPT !.results =
                           Append(@, [slug |-> run.topic.slug,
                                      score |-> run.quality_score,
                                      broken_urls |-> outcome = "broken"])]
              /\ err' = err
              /\ pc' = "next_topic"
  /\ UNCHANGED <<clock, call, ARTIKEL_DIR, api_key, latency, since, unseen, mail_data, run,
                 reply_text, sent>>

\* build_site, after the loop or when there was nothing to generate.
BatchBuild ==
  /\ pc = "batch_build"
  /\ \E outcome \in {"ok", "raise"} :
       IF outcome = "ok"
         THEN /\ pc' = IF ret.results = <<>> THEN "done" ELSE "summary"
              /\ err' = err
         ELSE /\ err' = [step |-> "build_site", how |-> "raise"]
              /\ pc' = "exited"
  /\ UNCHANGED <<clock, call, ret, ARTIKEL_DIR, api_key, latency, since, unseen, mail_data,
                 run, reply_text, sent>>

\* send_email with the report; a failure is printed as a warning.
BatchSummary ==
  /\ pc = "summary"
  /\ \E outcome \in {"ok", "raise"} :
       sent' = IF outcome = "ok"
                 THEN Append(sent, [to |-> "r.leb@cybertime.at",
                                    body |-> [kind |-> "report",
                                              results |-> ret.results]])
                 ELSE sent
  /\ pc' = "done"
  /\ UNCHANGED <<clock, call, ret, ARTIKEL_DIR, api_key, latency, since, unseen, mail_data,
                 run, reply_text, err>>

NextBatch ==
  \/ BatchStart
  \/ BatchNextTopic
  \/ Research
  \/ Draft
  \/ Check
  \/ Image
  \/ Render
  \/ BatchCheckUrls
  \/ BatchBuild
  \/ BatchSummary

SpecBatch == InitBatch /\ [][NextBatch]_vars

\* The processes of the repository: the controller, whose poll step takes as
\* long as the interval, or the batch generator.
InitEntryPoints ==
  \/ /\ InitProgram
     /\ latency = AUTO_GENERATE_INTERVAL
     /\ call = NoCall
     /\ ret = NoRet
  \/ InitBatch

NextEntryPoints ==
  \/ PollStart
  \/ NextMessage
  \/ PollEnd
  \/ Answer
  \/ SendReply
  \/ ErrorReply
  \/ Research
  \/ Draft
  \/ Check
  \/ Image
  \/ Render
  \/ Build
  \/ Publish
  \/ AutoCheck
  \/ AutoStart
  \/ Notify
  \/ Sleep
  \/ BatchStart
  \/ BatchNextTopic
  \/ BatchCheckUrls
  \/ BatchBuild
  \/ BatchSummary

SpecEntryPoints == InitEntryPoints /\ [][NextEntryPoints]_vars

\* ------------------------------------------------- collaborators that succeed
\* The controller with the credential set and every collaborator call
\* succeeding: no step raises, the image is made, git pushes. main's loop is
\* sequential and never blocks, so each step that is enabled is taken.

Succeeded ==
  /\ err = NoErr
  /\ run.image_outcome \in {"none", "ok"}
  /\ run.publish \in {"none", "ok"}

InitReliable ==
  /\ InitProgram
  /\ api_key = TRUE
  /\ latency = SlowPollRounds * POLL_INTERVAL
  /\ call = NoCall
  /\ ret = NoRet

NextReliable ==
  \/ PollStart /\ Succeeded'
  \/ NextMessage /\ Succeeded'
  \/ PollEnd /\ Succeeded'
  \/ Answer /\ Succeeded'
  \/ SendReply /\ Succeeded'
  \/ Research /\ Succeeded'
  \/ Draft /\ Succeeded'
  \/ Check /\ Succeeded'
  \/ Image /\ Succeeded'
  \/ Render /\ Succeeded'
  \/ Build /\ Succeeded'
  \/ Publish /\ Succeeded'
  \/ AutoCheck /\ Succeeded'
  \/ AutoStart /\ Succeeded'
  \/ Notify /\ Succeeded'
  \/ Sleep /\ Succeeded'

SpecReliable == InitReliable /\ [][NextReliable]_vars /\ WF_vars(NextReliable)

\* ------------------------------------------------- functions called alone
\* Each of the specifications below calls one function of the program once, on
\* arguments drawn from a bounded set: pc is "call" before and "return" after.

\* The controller's variables while a function is called on its own.
Idle ==
  /\ ARTIKEL_DIR = {}
  /\ api_key = TRUE
  /\ latency = 0
  /\ since = 0
  /\ unseen = 0
  /\ mail_data = NoMail
  /\ run = NoRun
  /\ reply_text = NoReply
  /\ sent = <<>>
  /\ err = NoErr
  /\ clock = NoClock

\* The sequences of at most n elements of S.
UpTo(S, n) == UNION {[1..k -> S] : k \in 0..n}

\* The phrases that subjects and bodies are put together from: list words in
\* several casings, the status word, heads of the new-article and rework
\* patterns, a search term with trailing punctuation, and a filler of 8 tokens.
Phrases ==
  { <<"T","h","e","m","e","n","l","i","s","t","e">>,
    <<"T","O","P","I","C","S">>,
    <<"S","t","a","t","u","s">>,
    <<"n","e","u","e","r"," ","A","r","t","i","k","e","l"," ","u","e","b","e","r">>,
    <<"r","e","w","o","r","k">>,
    <<"L","o","b",".">>,
    <<"a"," ","b"," ","c"," ","d"," ","e"," ","f"," ","g"," ","h">> }

InitParse ==
  /\ pc = "call"
  /\ call \in {[fn |-> "parse_command", subject |-> join(s), body |-> join(b)] :
                 s \in UpTo(Phrases, MaxSubjectPhrases),
                 b \in UpTo(Phrases, MaxBodyPhrases)}
  /\ ret = NoRet
  /\ Idle

\* process_email: cmd, arg = parse_command(mail_data["subject"], mail_data["body"])
CallParseCommand ==
  /\ pc = "call"
  /\ call.fn = "parse_command"
  /\ ret' = parse_command(call.subject, call.body)
  /\ pc' = "return"
  /\ UNCHANGED <<clock, call, ARTIKEL_DIR, api_key, latency, since, unseen, mail_data,
                 run, reply_text, sent, err>>

NextParse == CallParseCommand

SpecParse == InitParse /\ [][NextParse]_vars

\* The topic records that catalogs are put together from: two topics that
\* share a title word, one whose slug has an upper-case letter, and one that
\* only its title and its upper-case keyword name.
TopicPool ==
  { [slug |-> <<"l","o","b">>, title |-> <<"L","o","b">>, category |-> "Grundschlaege",
     keywords |-> << <<"h","o","c","h">>, <<"w","e","i","t">> >>],
    [slug |-> <<"l","o","b","-","v","o","l","l","e","y">>, title |-> <<"L","o","b"," ","V","o","l","l","e","y">>, category |-> "Netzspiel",
     keywords |-> << <<"n","e","t","z">> >>],
    [slug |-> <<"S","t","o","p","p">>, title |-> <<"K","u","r","z">>, category |-> "Grundschlaege",
     keywords |-> <<>>],
    [slug |-> <<"s","m">>, title |-> <<"S","m","a","s","h">>, category |-> "Netzspiel",
     keywords |-> << <<"H","a","r","t">> >>] }

\* The catalogs: at most MaxTopics topics, each slug once.
Catalogs ==
  {c \in UpTo(TopicPool, MaxTopics) :
     \A i, j \in DOMAIN c : c[i].slug = c[j].slug => i = j}

\* The words that search terms are put together from.
TermWords ==
  { <<"L","o","b">>, <<"v","o","l","l","e","y">>, <<"l","o","b","s">>, <<"s","t","o","p","p">>, <<"s","m","a","s","h">>, <<"z","u">> }

SearchTerms == {join(w) : w \in UpTo(TermWords, MaxTermWords)}

InitResolve ==
  /\ pc = "call"
  /\ call \in {[fn |-> "find_topic", search_term |-> t, topics |-> c] :
                 t \in SearchTerms, c \in Catalogs}
  /\ ret = NoRet
  /\ Idle

\* handle_new_article, handle_rework: topic = find_topic(search_term, topics)
CallFindTopic ==
  /\ pc = "call"
  /\ call.fn = "find_topic"
  /\ ret' = find_topic(call.search_term, call.topics)
  /\ pc' = "return"
  /\ UNCHANGED <<clock, call, ARTIKEL_DIR, api_key, latency, since, unseen, mail_data,
                 run, reply_text, sent, err>>

NextResolve == CallFindTopic

SpecResolve == InitResolve /\ [][NextResolve]_vars

\* The stem of an artifact whose topic is no longer in the catalog.
OrphanStem == <<"a","l","t">>

\* The catalogs given to the two report handlers: at most MaxListTopics
\* topics, each slug once.
ListCatalogs ==
  {c \in UpTo(TopicPool, MaxListTopics) :
     \A i, j \in DOMAIN c : c[i].slug = c[j].slug => i = j}

\* The contents of docs/artikel: the stems of its *.html files.
Directories == SUBSET ({t.slug : t \in TopicPool} \cup {OrphanStem})

InitReports ==
  /\ pc = "call"
  /\ call \in {[fn |-> f, topics |-> c, existing |-> d] :
                 f \in {"handle_topic_list", "handle_status"},
                 c \in ListCatalogs, d \in Directories}
  /\ ret = NoRet
  /\ Idle

\* process_email: return handle_topic_list(topics)
CallTopicList ==
  /\ pc = "call"
  /\ call.fn = "handle_topic_list"
  /\ ret' = handle_topic_list(call.topics, call.existing)
  /\ pc' = "return"
  /\ UNCHANGED <<clock, call, ARTIKEL_DIR, api_key, latency, since, unseen, mail_data,
                 run, reply_text, sent, err>>

\* process_email: return handle_status(site, topics)
CallStatus ==
  /\ pc = "call"
  /\ call.fn = "handle_status"
  /\ ret' = handle_status(call.topics, call.existing)
  /\ pc' = "return"
  /\ UNCHANGED <<clock, call, ARTIKEL_DIR, api_key, latency, since, unseen, mail_data,
                 run, reply_text, sent, err>>

NextReports ==
  \/ CallTopicList
  \/ CallStatus

SpecReports == InitReports /\ [][NextReports]_vars

\* ------------------------------------------------------------- properties

PipelinePcs ==
  {"research", "draft", "check", "image", "render", "build", "publish"}

\* The step is poll_once taking a message of the allow-listed sender with
\* command cmd from the batch and handing it to process_email.
Dispatches(cmd) ==
  /\ pc = "loop"
  /\ unseen' = unseen - 1
  /\ mail_data' \in Messages
  /\ FromAllowedSender(mail_data')
  /\ mail_data'.cmd = cmd

\* C1. A new-article command whose topic already has its artifact starts no
\* pipeline step (no research, draft, quality check, image, render, site
\* rebuild or publish), leaves the output directory as it is, and its reply is
\* the "exists" reply with the article's URL; that stays so until the message
\* is done.
C1_DispatchExisting ==
  (/\ Dispatches("new_article")
   /\ Resolve[mail_data'.arg] # NoTopic
   /\ Exists(ARTIKEL_DIR, Resolve[mail_data'.arg]))
  => /\ pc' = "send"
     /\ run' = NoRun
     /\ ARTIKEL_DIR' = ARTIKEL_DIR
     /\ reply_text'.kind = "exists"
     /\ reply_text'.url = ArticleUrl(Resolve[mail_data'.arg])

C1_WhileExistsReply ==
  reply_text.kind = "exists"
  => /\ mail_data.cmd = "new_article"
     /\ run = NoRun
     /\ pc \notin PipelinePcs
     /\ Exists(ARTIKEL_DIR, Resolve[mail_data.arg])
     /\ \A i \in DOMAIN sent : sent[i].body \in {reply_text, [kind |-> "error", trace |-> "send_reply"]}

C1_ExistsReplyFrame ==
  (reply_text.kind = "exists" /\ reply_text' = reply_text)
  => ARTIKEL_DIR' = ARTIKEL_DIR

C1_GenerateNewExisting ==
  /\ []C1_WhileExistsReply
  /\ [][C1_DispatchExisting /\ C1_ExistsReplyFrame]_vars

\* C1 witness: the "exists" reply for a new-article command was sent.
C1_Witness ==
  /\ pc = "loop"
  /\ mail_data.cmd = "new_article"
  /\ reply_text.kind = "exists"
  /\ sent = << [to |-> ALLOWED_SENDER, body |-> reply_text] >>

\* C2. A rework command whose topic has no artifact starts no pipeline step,
\* creates no artifact, and its reply is the "generate first" hint; that stays
\* so until the message is done.
C2_DispatchMissing ==
  (/\ Dispatches("rework")
   /\ Resolve[mail_data'.arg] # NoTopic
   /\ ~Exists(ARTIKEL_DIR, Resolve[mail_data'.arg]))
  => /\ pc' = "send"
     /\ run' = NoRun
     /\ ARTIKEL_DIR' = ARTIKEL_DIR
     /\ reply_text'.kind = "generate_first"
     /\ reply_text'.term = mail_data'.arg

C2_WhileHintReply ==
  reply_text.kind = "generate_first"
  => /\ mail_data.cmd = "rework"
     /\ run = NoRun
     /\ pc \notin PipelinePcs
     /\ ~Exists(ARTIKEL_DIR, Resolve[mail_data.arg])
     /\ \A i \in DOMAIN sent : sent[i].body \in {reply_text, [kind |-> "error", trace |-> "send_reply"]}

C2_HintReplyFrame ==
  (reply_text.kind = "generate_first" /\ reply_text' = reply_text)
  => ARTIKEL_DIR' = ARTIKEL_DIR

C2_ReworkUnpublished ==
  /\ []C2_WhileHintReply
  /\ [][C2_DispatchMissing /\ C2_HintReplyFrame]_vars

\* C2 witness: the "generate first" hint for a rework command was sent.
C2_Witness ==
  /\ pc = "loop"
  /\ mail_data.cmd = "rework"
  /\ reply_text.kind = "generate_first"
  /\ sent = << [to |-> ALLOWED_SENDER, body |-> reply_text] >>

Count(seq, x) == Cardinality({i \in DOMAIN seq : seq[i] = x})

IsPrefix(a, b) == Len(a) <= Len(b) /\ \A i \in DOMAIN a : a[i] = b[i]

\* The draft loop of the run is over: image generation is next or was done.
AfterLoop == pc = "image" \/ Count(run.steps, "image") > 0

PipelineReplyKinds == {"created", "reworked"}

\* C3. In a run started by a new-article or rework command there are at most
\* 2 drafts and 2 quality checks; no attempt follows one that scored >= 7; the
\* loop ends only after a score >= 7 or the second attempt; the score kept and
\* reported is the last one. With the scores 5 then 8 there are exactly 2
\* attempts and the reply reports 8.
C3_QualityLoop ==
  run.kind \in {"new_article", "rework"}
  => LET n == Len(run.scores)
     IN /\ Count(run.steps, "draft") <= 2
        /\ Count(run.steps, "check") <= 2
        /\ n <= 2
        /\ \A i \in 1..(n - 1) : run.scores[i] < 7
        /\ (n >= 1 /\ run.scores[n] >= 7) => pc \notin {"draft", "check"}
        /\ AfterLoop =>
             /\ n >= 1
             /\ run.scores[n] >= 7 \/ n = 2
             /\ Count(run.steps, "draft") = n
             /\ run.quality_score = run.scores[n]
        /\ reply_text.kind \in PipelineReplyKinds =>
             reply_text.score = run.scores[n]
        /\ (n >= 1 /\ run.scores[1] = 5 /\ AfterLoop) => n = 2
        /\ (run.scores = <<5, 8>> /\ reply_text.kind \in PipelineReplyKinds) =>
             /\ Count(run.steps, "draft") = 2
             /\ reply_text.score = 8

\* C3 witness: a new-article run scored 5 then 8 and its reply, reporting 8,
\* was sent.
C3_Witness ==
  /\ run.kind = "new_article"
  /\ run.scores = <<5, 8>>
  /\ reply_text.kind = "created"
  /\ reply_text.score = 8
  /\ sent = << [to |-> ALLOWED_SENDER, body |-> reply_text] >>

\* The steps of a run with two attempts, in order.
FullSteps ==
  <<"research", "draft", "check", "draft", "check", "image", "render",
    "build", "publish">>

\* Both attempts of the run scored below 7.
LowBoth == Len(run.scores) = 2 /\ run.scores[1] < 7 /\ run.scores[2] < 7

\* No step of the pipeline raised (the sending of the reply may have).
NoPipelineStepRaised == err.step \in {"none", "send_reply"}

\* C4. A run whose two attempts both scored below 7 and in which no step
\* raised goes on through image, render, site rebuild and publish: it is always
\* at the next step of the full sequence, what it renders is the second draft,
\* and once it has left the pipeline it has rendered, rebuilt and published and
\* its reply or notification reports the second (failing) score.
C4_AdvisoryGate ==
  (run.kind # "none" /\ LowBoth /\ NoPipelineStepRaised)
  => /\ IsPrefix(run.steps, FullSteps)
     /\ pc \in PipelinePcs => pc = FullSteps[Len(run.steps) + 1]
     /\ Len(run.steps) >= 7 =>
          /\ Len(run.rendered) = 1
          /\ run.rendered[1].slug = run.topic.slug
          /\ run.rendered[1].content.draft = 2
          /\ run.topic.slug \in ARTIKEL_DIR
     /\ pc \notin PipelinePcs =>
          /\ run.steps = FullSteps
          /\ run.publish # "none"
          /\ run.kind # "auto" =>
               /\ reply_text.kind \in PipelineReplyKinds
               /\ reply_text.score = run.scores[2]
          /\ run.kind = "auto" =>
               /\ pc \in {"notify", "sleep"}
               /\ \A i \in DOMAIN sent : sent[i].body.score = run.scores[2]

\* C4 witness: a new-article run scored 6 then 5, was rendered and published,
\* and its reply, reporting 5, was sent.
C4_Witness ==
  /\ run.kind = "new_article"
  /\ run.scores = <<6, 5>>
  /\ run.steps = FullSteps
  /\ reply_text.kind = "created"
  /\ reply_text.score = 5
  /\ sent = << [to |-> ALLOWED_SENDER, body |-> reply_text] >>

\* C5 (as claimed; the code violates it). When the dispatch of a message of
\* the allow-listed sender fails, however it fails, the failure is caught per
\* message: the process goes on (to the error reply, then to the rest of the
\* batch), and once the message is done an error reply was sent.
C5_DispatchFailureContained ==
  (mail_data # NoMail /\ FromAllowedSender(mail_data) /\ err # NoErr)
  => /\ pc \in {"error_reply", "loop", "auto_check"}
     /\ pc # "error_reply" =>
          /\ sent # <<>>
          /\ sent[Len(sent)].body.kind = "error"

\* C6 (as claimed; the code violates it). A message that parse_email fails on
\* does not end the poll step while messages of the batch are left.
C6_MalformedDoesNotEndPoll ==
  (pc = "auto_check" /\ err.step = "parse_email") => unseen = 0

\* C7 (as claimed; the code violates it). Whatever sub-step of git_push fails
\* and however, nothing is raised to the handler, and the reply reports the
\* success with the score and the URL.
C7_PublishFailureContained ==
  run.publish \notin {"none", "ok"}
  => /\ err.step # "git_push"
     /\ run.kind # "auto" =>
          /\ reply_text.kind \in PipelineReplyKinds
          /\ reply_text.score = run.quality_score
          /\ reply_text.url = ArticleUrl(run.topic)

ImageFailures == {"no_key", "empty", "raised"}

\* C8. When image generation fails (no key, empty response, raised error) the
\* run goes on to render with image_file None and no exception; the artifact
\* it renders has image None; and if no other step raises, the reply or the
\* notification is the success one, saying that there is no image.
C8_ImageFailureDegrades ==
  run.image_outcome \in ImageFailures
  => /\ run.image_file = "None"
     /\ err.step # "generate_image"
     /\ run.steps[Len(run.steps)] = "image" => pc = "render"
     /\ \A i \in DOMAIN run.rendered : run.rendered[i].image = "None"
     /\ Count(run.steps, "render") > 0 /\ err.step # "render_article" =>
          Len(run.rendered) = 1
     /\ (NoPipelineStepRaised /\ pc \notin PipelinePcs) =>
          /\ run.kind = "new_article" =>
               reply_text.kind = "created" /\ reply_text.image = FALSE
          /\ run.kind = "rework" => reply_text.kind = "reworked"
          /\ run.kind = "auto" =>
               \A i \in DOMAIN sent :
                 sent[i].body.kind = "auto" /\ sent[i].body.image = FALSE

\* C8 witness: the image call raised, the artifact was rendered without image,
\* and the success reply was sent.
C8_Witness ==
  /\ run.kind = "new_article"
  /\ run.image_outcome = "raised"
  /\ run.rendered # <<>>
  /\ run.rendered[1].image = "None"
  /\ reply_text.kind = "created"
  /\ sent = << [to |-> ALLOWED_SENDER, body |-> reply_text] >>

\* C9. A message of another sender is never dispatched: while it is the
\* current message there is no handler run, no reply, no mail sent, and the
\* output directory stays as it is. Handlers, replies and mails exist only for
\* messages of the allow-listed sender, and every mail goes to that address.
C9_WhileOtherSender ==
  /\ (mail_data # NoMail /\ mail_data.from # ALLOWED_SENDER) =>
       /\ pc \in {"loop", "auto_check"}
       /\ run = NoRun
       /\ reply_text = NoReply
       /\ sent = <<>>
       /\ err = NoErr
  /\ \A i \in DOMAIN sent : sent[i].to = ALLOWED_SENDER
  /\ (\/ pc \in {"answer", "send", "error_reply"}
      \/ run.kind \in {"new_article", "rework"}
      \/ reply_text # NoReply) => mail_data.from = ALLOWED_SENDER

C9_OtherSenderFrame ==
  (mail_data' # NoMail /\ mail_data'.from # ALLOWED_SENDER)
  => /\ ARTIKEL_DIR' = ARTIKEL_DIR
     /\ sent' = <<>>
     /\ pc' \in {"loop", "auto_check"}

C9_OnlyAllowedSender ==
  /\ []C9_WhileOtherSender
  /\ [][C9_OtherSenderFrame]_vars

\* C9 witness: a new-article command of another sender was taken from the
\* batch and skipped.
C9_Witness ==
  /\ mail_data.from = OtherSender
  /\ mail_data.cmd = "new_article"
  /\ Resolve[mail_data.arg] # NoTopic
  /\ ~Exists(ARTIKEL_DIR, Resolve[mail_data.arg])
  /\ pc = "loop"
  /\ unseen = 0

\* The place of a topic in the catalog.
IndexOf(topic) == CHOOSE i \in DOMAIN Topics : Topics[i] = topic

AllPublished == \A i \in DOMAIN Topics : Topics[i].slug \in ARTIKEL_DIR

\* C10. The topic of an autonomous run is the first catalog topic without an
\* artifact: every topic before it has one, it has none until the run renders
\* it, and the run renders no other. An autonomous step that finds every topic
\* published starts no run, leaves the output directory as it is and sends
\* nothing; and while an autonomous step is on, only its topic's artifact is
\* written.
C10_AutoRunTopic ==
  run.kind = "auto"
  => /\ \A j \in 1..(IndexOf(run.topic) - 1) : Topics[j].slug \in ARTIKEL_DIR
     /\ run.rendered = <<>> => run.topic.slug \notin ARTIKEL_DIR
     /\ \A i \in DOMAIN run.rendered : run.rendered[i].slug = run.topic.slug

C10_AutoStartStep ==
  pc = "auto"
  => /\ AllPublished =>
          /\ pc' = "sleep"
          /\ run' = NoRun
          /\ ARTIKEL_DIR' = ARTIKEL_DIR
          /\ sent' = <<>>
     /\ (~AllPublished /\ pc' # "sleep") =>
          /\ pc' = "research"
          /\ run'.kind = "auto"
          /\ run'.topic.slug \notin ARTIKEL_DIR
          /\ \A j \in 1..(IndexOf(run'.topic) - 1) : Topics[j].slug \in ARTIKEL_DIR
     /\ ARTIKEL_DIR' = ARTIKEL_DIR

C10_AutoFrame ==
  run.kind = "auto" => ARTIKEL_DIR' \subseteq ARTIKEL_DIR \cup {run.topic.slug}

C10_AutoAdvance ==
  /\ []C10_AutoRunTopic
  /\ [][C10_AutoStartStep /\ C10_AutoFrame]_vars

\* C10 witness: with the first two topics published, the autonomous step ran
\* the pipeline on the third and sent its notification.
C10_Witness ==
  /\ run.kind = "auto"
  /\ run.topic = Topics[3]
  /\ run.rendered # <<>>
  /\ ARTIKEL_DIR = Slugs
  /\ pc = "sleep"
  /\ sent # <<>>

\* C11 (as claimed; the code violates it). A failure of any kind during an
\* autonomous step is logged and not propagated: the controller goes on to the
\* sleep and the next poll step.
C11_AutoFailureContained ==
  (run.kind = "auto" /\ err # NoErr) => pc = "sleep"

\* C12 (as claimed; the code violates it). Once the loop is running (every
\* state from the first poll step on), no command and no autonomous step
\* terminates the process.
C12_NoExitOnceRunning == pc # "exited"

\* The positions of poll_once and of the handlers it calls.
PollPcs == {"poll", "loop", "answer", "send", "error_reply"}

\* C13. A command's run and an autonomous run never overlap: while an
\* autonomous run is on, poll_once has returned (no message is being handled),
\* and while poll_once is on there is no autonomous run.
C13_OneRunAtATime ==
  /\ run.kind = "auto" =>
       /\ pc \in PipelinePcs \cup {"notify", "sleep", "exited"}
       /\ mail_data = NoMail
       /\ reply_text = NoReply
  /\ run.kind \in {"new_article", "rework"} =>
       /\ pc \in PipelinePcs \cup {"send", "error_reply", "loop", "auto_check", "exited"}
       /\ mail_data # NoMail
  /\ pc \in PollPcs => run.kind # "auto"
  /\ pc \in {"auto", "notify"} => run.kind \notin {"new_article", "rework"}

\* C13, the order of one loop iteration: the autonomous step starts only after
\* poll_once is over, the sleep only after the interval check or the
\* autonomous step, the next poll step only after the sleep; a run starts only
\* where no run is on.
C13_IterationOrder ==
  /\ (pc' = "auto_check" /\ pc # "auto_check") => pc \in {"poll", "loop"}
  /\ (pc' = "auto" /\ pc # "auto") => pc = "auto_check"
  /\ (pc' = "sleep" /\ pc # "sleep") =>
       \/ pc \in {"auto_check", "auto", "notify"}
       \/ pc \in PipelinePcs /\ run.kind = "auto"
  /\ (pc' = "poll" /\ pc # "poll") => pc = "sleep"
  /\ (pc' \in PollPcs \ {"poll"} /\ pc \notin PollPcs) =>
       pc \in PipelinePcs /\ run.kind \in {"new_article", "rework"}
  /\ (run'.kind = "auto" /\ run.kind # "auto") => (pc = "auto" /\ run = NoRun)
  /\ (run'.kind \in {"new_article", "rework"} /\ run.kind = "none") =>
       (pc = "loop" /\ run = NoRun)

C13_SingleFlight ==
  /\ []C13_OneRunAtATime
  /\ [][C13_IterationOrder]_vars

\* C13 witness: an autonomous run is at its publish step, after the poll step
\* of the same iteration ended.
C13_Witness ==
  /\ run.kind = "auto"
  /\ pc = "publish"
  /\ mail_data = NoMail
  /\ unseen = 0

\* parse_command has returned for the call.
Parsed == pc = "return" /\ call.fn = "parse_command"

\* The lower-cased concatenation of subject and body that parse works on.
ParseText == lower(call.subject \o <<" ">> \o call.body)

ListIntent == \E w \in ListWords : In(w, ParseText)

StatusIntent ==
  In(<<"s","t","a","t","u","s">>, ParseText) /\ Len(split(ParseText)) < 10

NewArticleIntent == FirstMatch(new_patterns, 1, ParseText) # <<>>

ReworkIntent == FirstMatch(rework_patterns, 1, ParseText) # <<>>

\* C14. parse classifies every (subject, body) pair, the empty body included,
\* by the first rule that matches in the order list, status (contains "status"
\* and fewer than 10 tokens), new article, rework, else question: a text with a
\* list word in any casing is ListTopics whatever else it matches, and every
\* input gets one of the five commands.
C14_ParsePrecedence ==
  Parsed
  => /\ ret.cmd \in {"topic_list", "status", "new_article", "rework", "question"}
     /\ ret.cmd = (IF ListIntent THEN "topic_list"
                   ELSE IF StatusIntent THEN "status"
                   ELSE IF NewArticleIntent THEN "new_article"
                   ELSE IF ReworkIntent THEN "rework"
                   ELSE "question")
     /\ (\E w \in ListWords :
           In(w, lower(call.subject)) \/ In(w, lower(call.body)))
        => ret.cmd = "topic_list"
     /\ In(<<"s","t","a","t","u","s">>, ParseText) /\ ~ListIntent /\ Len(split(ParseText)) >= 10
        => ret.cmd # "status"
     /\ ret.cmd = "question" =>
          ret.arg = (IF call.body = <<>> THEN call.subject
                     ELSE call.subject \o <<"\n">> \o call.body)

\* C14 witness: a subject that is a new-article command with a body that holds
\* a list word in upper case, classified as ListTopics.
C14_Witness ==
  /\ Parsed
  /\ NewArticleIntent
  /\ call.body = <<"T","O","P","I","C","S">>
  /\ ret.cmd = "topic_list"

\* find_topic has returned for the call.
Resolved == pc = "return" /\ call.fn = "find_topic"

\* The score resolve gave the topic at place i of the catalog.
ScoreAt(i) == TopicScore(call.search_term, call.topics[i])

\* The orders in which the elements of a set can be taken.
Orders(S) == {f \in [1..Cardinality(S) -> S] : Range(f) = S}

\* C15. resolve returns the topic with the highest total score, the earliest
\* in catalog order of those tied for it (NotFound when the highest score is
\* 0); the score of a topic, and so the result, is the same in whatever order
\* the words of the term are taken.
C15_HighestScoreFirstTie ==
  Resolved
  => LET n == Len(call.topics)
         words == Range(split(lower(call.search_term)))
     IN /\ \A i \in 1..n : \A order \in Orders(words) :
             SumInOrder(order, AllText(call.topics[i])) = ScoreAt(i)
        /\ ret = find_topic(call.search_term, call.topics)
        /\ (\E i \in 1..n : ScoreAt(i) > 0) =>
             \E b \in 1..n :
               /\ ret = call.topics[b]
               /\ \A j \in 1..n : ScoreAt(j) <= ScoreAt(b)
               /\ \A j \in 1..(b - 1) : ScoreAt(j) < ScoreAt(b)
        /\ ret # NoTopic => \E i \in 1..n : ret = call.topics[i]

\* C15 witness: the two topics of the catalog tie with a score above zero and
\* the first one is returned.
C15_Witness ==
  /\ Resolved
  /\ Len(call.topics) = 2
  /\ ScoreAt(1) = ScoreAt(2)
  /\ ScoreAt(1) > 0
  /\ ret = call.topics[1]

\* C16. When no topic of the catalog scores above zero (a term whose words are
\* all shorter than 3 characters and an empty catalog included), resolve
\* returns NotFound, never the first topic.
C16_ZeroScoreNotFound ==
  Resolved
  => /\ (\A i \in DOMAIN call.topics : ScoreAt(i) = 0) => ret = NoTopic
     /\ call.topics = <<>> => ret = NoTopic
     /\ (\A w \in Range(split(call.search_term)) : Len(w) < 3) => ret = NoTopic

\* C16 witness: a term of short words only against a catalog of two topics.
C16_Witness ==
  /\ Resolved
  /\ Len(call.topics) = 2
  /\ call.search_term # <<>>
  /\ \A w \in Range(split(call.search_term)) : Len(w) < 3
  /\ ret = NoTopic

\* The tokens of the search term: its lower-cased words of length >= 3.
Tokens(search_term) ==
  SelectSeq(split(lower(search_term)), LAMBDA w : Len(w) >= 3)

\* The combined surface of a topic, in lower case as the tokens are: title,
\* slug with separators replaced by spaces, keywords.
Surface(topic) ==
  lower(topic.title) \o <<" ">> \o lower(replace(topic.slug, "-", " "))
    \o <<" ">> \o KeywordsLower(topic)

\* What one token adds to the score of a topic with the given surface.
TokenScore(token, surface) ==
  IF In(token, surface) THEN 2
  ELSE IF \E w \in Range(split(surface)) : In(token, w) \/ In(w, token) THEN 1
  ELSE 0

RECURSIVE SumOverTokens(_, _)
SumOverTokens(tokens, surface) ==
  IF tokens = <<>> THEN 0
  ELSE TokenScore(tokens[1], surface) + SumOverTokens(Tail(tokens), surface)

\* C17 (as claimed; the code violates it). The score resolve gives a topic is
\* the sum over the tokens of the search term of 2 when the token is a
\* substring of the topic's combined surface, else 1 when the token and a word
\* of the surface are substrings of each other, else 0.
C17_ScoreAsSpecified ==
  Resolved
  => \A i \in DOMAIN call.topics :
       ScoreAt(i) = SumOverTokens(Tokens(call.search_term), Surface(call.topics[i]))

TokenSet == Range(Tokens(call.search_term))

\* No token of the term and no word of the text are substrings of each other.
UnrelatedText(text) ==
  \A token \in TokenSet : \A w \in Range(split(text)) :
    ~In(token, w) /\ ~In(w, token)

\* The topic at place i names every token of the term in its title or its
\* keywords, and the term has a token.
NamesEveryToken(i) ==
  /\ TokenSet # {}
  /\ \A token \in TokenSet :
       \/ In(token, lower(call.topics[i].title))
       \/ In(token, KeywordsLower(call.topics[i]))

\* C18 (as claimed; violated). A topic whose combined surface contains every
\* token of the term, in a catalog whose other topics all have keywords
\* unrelated to the term, scores >= every other topic and is what resolve
\* returns, whatever its place. Stated here for the topics that contain the
\* tokens in title or keywords, which the claim includes.
C18_ContainingTopicWins ==
  Resolved
  => \A i \in DOMAIN call.topics :
       (/\ NamesEveryToken(i)
        /\ \A j \in DOMAIN call.topics \ {i} :
             UnrelatedText(KeywordsLower(call.topics[j])))
       => /\ \A j \in DOMAIN call.topics : ScoreAt(i) >= ScoreAt(j)
          /\ ret = call.topics[i]

\* The topic at place i names every token, and the whole surface of every
\* other topic is unrelated to the term.
OnlyMatch(i) ==
  /\ NamesEveryToken(i)
  /\ \A j \in DOMAIN call.topics \ {i} : UnrelatedText(Surface(call.topics[j]))

\* C18, amended. When the term has at least one token, one topic's title and
\* keywords contain every token, and the whole surface (title, slug, keywords)
\* of every other topic is unrelated to the term, that topic scores above
\* every other topic and resolve returns it, whatever its place in the
\* catalog.
C18_OnlyMatchWins ==
  Resolved
  => \A i \in DOMAIN call.topics :
       OnlyMatch(i)
       => /\ \A j \in DOMAIN call.topics \ {i} : ScoreAt(i) > ScoreAt(j)
          /\ ScoreAt(i) = 2 * Cardinality(TokenSet)
          /\ ret = call.topics[i]

\* C18 witness: a term of two tokens, both in the title of the second topic of
\* the catalog, with an unrelated first topic; the second topic is returned.
C18_Witness ==
  /\ Resolved
  /\ Len(call.topics) = 2
  /\ Cardinality(TokenSet) = 2
  /\ OnlyMatch(2)
  /\ ret = call.topics[2]

\* handle_topic_list has returned for the call.
Listed == pc = "return" /\ call.fn = "handle_topic_list"

\* The lines of the reply after its title and progress lines.
ListBody == SubSeq(ret.lines, 3, Len(ret.lines))

IsHeading(line) == line[1] = "=="

\* The category headings of the reply, in order.
Headings == SelectSeq(ListBody, IsHeading)

\* The topic lines of the reply, in order.
Entries == SelectSeq(ListBody, LAMBDA line : ~IsHeading(line))

\* The categories of the catalog.
CategoriesOf(topics) == {topics[i].category : i \in DOMAIN topics}

\* The place of the first topic of category c in the catalog.
FirstOf(topics, c) ==
  CHOOSE i \in DOMAIN topics :
    /\ topics[i].category = c
    /\ \A j \in 1..(i - 1) : topics[j].category # c

\* Every topic is listed exactly once, in catalog order.
ListedInCatalogOrder ==
  /\ Len(Entries) = Len(call.topics)
  /\ \A i \in DOMAIN call.topics : Entries[i][2] = call.topics[i].title

\* C19 (as claimed; violated). For every catalog the reply lists every topic
\* once in catalog order, each category has exactly one heading (its topics
\* are one contiguous group), and the headings are in the order in which the
\* categories first occur in the catalog.
C19_OneGroupPerCategory ==
  Listed
  => /\ ListedInCatalogOrder
     /\ \A c \in CategoriesOf(call.topics) :
          Count(Headings, <<"==", c>>) = 1
     /\ \A h, k \in DOMAIN Headings :
          h < k => FirstOf(call.topics, Headings[h][2])
                     < FirstOf(call.topics, Headings[k][2])

\* The places of the catalog where a run of topics of one category starts.
RunStarts(topics) ==
  {i \in DOMAIN topics : i = 1 \/ topics[i].category # topics[i - 1].category}

\* The topics of each category are adjacent in the catalog.
CategoriesAdjacent(topics) ==
  \A i, j \in DOMAIN topics :
    (i < j /\ topics[i].category = topics[j].category)
    => \A k \in i..j : topics[k].category = topics[i].category

\* The heading that the line at place n of the body stands under.
HeadingAbove(n) ==
  ListBody[Max({m \in 1..n : IsHeading(ListBody[m])})]

\* C19, amended. For every catalog the reply lists every topic once in catalog
\* order; there is one heading for each run of adjacent topics of one
\* category, and every topic stands under a heading of its own category. When
\* the catalog keeps the topics of each category adjacent, each category has
\* one heading and the headings are in first-occurrence order.
C19_HeadingPerRun ==
  Listed
  => /\ ListedInCatalogOrder
     /\ Len(Headings) = Cardinality(RunStarts(call.topics))
     /\ \A n \in DOMAIN ListBody :
          ~IsHeading(ListBody[n]) =>
            /\ \E m \in 1..n : IsHeading(ListBody[m])
            /\ LET i == Cardinality({m \in 1..n : ~IsHeading(ListBody[m])})
               IN HeadingAbove(n) = <<"==", call.topics[i].category>>
     /\ \A h \in DOMAIN Headings : h + 1 \in DOMAIN Headings =>
          Headings[h] # Headings[h + 1]
     /\ CategoriesAdjacent(call.topics) =>
          /\ \A c \in CategoriesOf(call.topics) : Count(Headings, <<"==", c>>) = 1
          /\ \A h, k \in DOMAIN Headings :
               h < k => FirstOf(call.topics, Headings[h][2])
                          < FirstOf(call.topics, Headings[k][2])

\* C19 witness: a catalog of three topics whose first and third share a
\* category that the second does not have; the reply has three headings.
C19_Witness ==
  /\ Listed
  /\ Len(call.topics) = 3
  /\ call.topics[1].category = call.topics[3].category
  /\ call.topics[1].category # call.topics[2].category
  /\ Len(Headings) = 3
  /\ Len(Entries) = 3

\* handle_status has returned a reply for the call.
StatusReplied == pc = "return" /\ call.fn = "handle_status" /\ ret.kind = "status"

RECURSIVE SumDone(_)
SumDone(categories) ==
  IF categories = <<>> THEN 0
  ELSE categories[1].done + SumDone(Tail(categories))

\* C20 (as claimed; the code violates it). Whatever the catalog and the
\* content of the output directory, the overall completed count of the Status
\* reply is the number of catalog topics whose artifact exists, is the sum of
\* the per-category completed counts, and is at most the catalog size.
C20_StatusCounts ==
  StatusReplied
  => /\ ret.done = Cardinality({i \in DOMAIN call.topics :
                                  call.topics[i].slug \in call.existing})
     /\ ret.done = SumDone(ret.categories)
     /\ ret.done <= Len(call.topics)

\* ---- C21
\* C21: in every reachable state of the controller, started on a directory
\* that holds only artifacts of catalog topics, every artifact in the output
\* directory is named after a slug of the catalog.
C21_PublishedInCatalog == \A stem \in ARTIKEL_DIR : \E i \in DOMAIN Topics : Topics[i].slug = stem

\* A run has rendered its topic into a directory that did not hold it at start
\* of the run, next to the artifact of another topic.
C21_Witness ==
  /\ pc = "build"
  /\ run.kind = "auto"
  /\ Len(run.rendered) = 1
  /\ run.rendered[1].slug \in ARTIKEL_DIR
  /\ Cardinality(ARTIKEL_DIR) >= 2

\* ---- C22
\* C22: every run of the generation pipeline makes at most 2 draft attempts,
\* whichever entry point starts it: a dispatcher command, an autonomous-advance
\* step, or the batch generator's command-line run.
C22_AtMostTwoAttempts == Count(run.steps, "draft") <= MaxAttempts

\* C22, per entry point: a run started by a dispatcher command or by an
\* autonomous-advance step makes at most 2 draft attempts, a run of the batch
\* generator at most 3; an attempt after the first follows a failed check, and
\* every run that leaves its loop without an exception has made at least one.
C22_AttemptsPerEntryPoint ==
  /\ run.kind \in {"new_article", "rework", "auto"} =>
       Count(run.steps, "draft") <= MaxAttempts
  /\ run.kind = "batch" => Count(run.steps, "draft") <= MainAttempts
  /\ \A i \in DOMAIN run.scores :
       i < Count(run.steps, "draft") => ~Passed(run.scores[i])
  /\ AfterLoop => Count(run.steps, "draft") >= 1

\* The batch generator has drafted three times, both earlier drafts having
\* failed their checks.
C22_Witness ==
  /\ run.kind = "batch"
  /\ pc = "image"
  /\ Count(run.steps, "draft") = MainAttempts
  /\ Len(run.scores) = MainAttempts
  /\ ~Passed(run.scores[1])
  /\ ~Passed(run.scores[2])

\* ---- C23
\* An autonomous-advance step renders: the artifact of the first unpublished
\* topic of the catalog is added, and nothing else changes in the directory.
C23_OneMoreInCatalogOrder ==
  (run.kind = "auto" /\ pc = "render" /\ pc' = "build") =>
    /\ Remaining(ARTIKEL_DIR, Topics) # <<>>
    /\ run.topic = Remaining(ARTIKEL_DIR, Topics)[1]
    /\ ARTIKEL_DIR' = ARTIKEL_DIR \cup {run.topic.slug}
    /\ Cardinality(ARTIKEL_DIR') = Cardinality(ARTIKEL_DIR) + 1

\* Within an autonomous-advance step the directory changes only at its render,
\* and a step that completes (its notification is sent) has rendered.
C23_OnlyRenderPublishes ==
  /\ (run.kind = "auto" /\ ~(pc = "render" /\ pc' = "build")) =>
        ARTIKEL_DIR' = ARTIKEL_DIR
  /\ (pc = "notify" /\ pc' = "sleep") =>
        /\ Count(run.steps, "render") = 1
        /\ run.topic.slug \in ARTIKEL_DIR

\* With every topic published an autonomous-advance step changes nothing.
C23_NothingLeft ==
  (AllPublished /\ pc = "auto") =>
    /\ pc' = "sleep"
    /\ UNCHANGED <<ARTIKEL_DIR, run, sent, reply_text, err>>

\* C23: with a fixed non-empty catalog and collaborators that always succeed
\* the running controller eventually publishes every catalog topic; each
\* autonomous-advance step that completes adds exactly one published topic,
\* the first unpublished one of the catalog, until all are published, after
\* which autonomous-advance steps change nothing.
C23_EventuallyAllPublished ==
  /\ <>[]AllPublished
  /\ [][C23_OneMoreInCatalogOrder]_vars
  /\ [][C23_OnlyRenderPublishes]_vars
  /\ [][C23_NothingLeft]_vars

\* The autonomous-advance step that published the last topic of the catalog
\* has sent its notification.
C23_Witness ==
  /\ pc = "sleep"
  /\ run.kind = "auto"
  /\ run.topic = Topics[Len(Topics)]
  /\ AllPublished
  /\ Len(sent) = 1
  /\ sent[1].body.kind = "auto"
  /\ sent[1].body.remaining_count = 0

\* ---- C24
\* The steps of a run whose first draft passed, in order.
OneAttemptSteps ==
  <<"research", "draft", "check", "image", "render", "build", "publish">>

ControllerRuns == {"new_article", "rework", "auto"}

\* The steps a run has started so far are the first steps of the pipeline, in
\* its order.
C24_StepsInOrder ==
  run.kind \in ControllerRuns =>
    IsPrefix(run.steps, OneAttemptSteps) \/ IsPrefix(run.steps, FullSteps)

\* The reply or the notification of a run exists only after all its steps.
C24_ReplyLast ==
  /\ reply_text.kind \in PipelineReplyKinds =>
       /\ run.steps \in {OneAttemptSteps, FullSteps}
       /\ run.publish # "none"
  /\ (run.kind = "auto" /\ sent # <<>>) =>
       /\ run.steps \in {OneAttemptSteps, FullSteps}
       /\ run.publish # "none"

\* render_article starts: the draft it is given has been checked, and the
\* image step is behind.
C24_RenderAfterCheck ==
  (run.kind \in ControllerRuns /\ Len(run'.steps) > Len(run.steps)
     /\ run'.steps[Len(run'.steps)] = "render") =>
    /\ run.article_data.draft = Len(run.scores)
    /\ Count(run.steps, "check") = Count(run.steps, "draft")
    /\ run.steps[Len(run.steps)] = "image"
    /\ run.image_file # "unset"

\* git_push starts: build_site has returned.
C24_PublishAfterBuild ==
  (run.kind \in ControllerRuns /\ Len(run'.steps) > Len(run.steps)
     /\ run'.steps[Len(run'.steps)] = "publish") =>
    /\ run.steps[Len(run.steps)] = "build"
    /\ err.step # "build_site"
    /\ Len(run.rendered) = 1

\* C24: in every run of GenerateNew, Rework or autonomous advance the steps
\* occur in the order research, draft and quality-check attempts, image,
\* render, site rebuild, publish, and the reply or notification is composed
\* last; render never starts before the check of the draft it renders has
\* completed, and publish never starts before the rebuild has completed.
C24_PipelineOrder ==
  /\ []C24_StepsInOrder
  /\ []C24_ReplyLast
  /\ [][C24_RenderAfterCheck]_vars
  /\ [][C24_PublishAfterBuild]_vars

\* A rework run went through both attempts and every step, and its reply is
\* composed.
C24_Witness ==
  /\ pc = "send"
  /\ run.kind = "rework"
  /\ run.steps = FullSteps
  /\ reply_text.kind = "reworked"
  /\ run.rendered[1].content.draft = 2

\* ---- C25
\* The feedback a run starts with: the stripped message body of a rework
\* command, or the default prompt when it is empty; empty for the other runs.
FeedbackSeed ==
  IF run.kind = "rework"
    THEN IF mail_data.body # "" THEN "body" ELSE "default"
    ELSE ""

\* C25: in every pipeline run research is performed exactly once, before the
\* first draft; the first draft is conditioned on the feedback seed (empty for
\* GenerateNew and autonomous advance, the message body or the default prompt
\* for Rework), and a later draft on exactly the critique that the check of
\* the attempt before it returned, which replaces the seed.
C25_DraftConditioning ==
  run.kind # "none" =>
    /\ Count(run.steps, "research") <= 1
    /\ Count(run.steps, "draft") >= 1 =>
         /\ run.steps[1] = "research"
         /\ Count(run.steps, "research") = 1
    /\ run.article_data.draft = 1 => run.article_data.feedback = FeedbackSeed
    /\ run.article_data.draft >= 2 =>
         /\ run.article_data.feedback = Critique(run.article_data.draft - 1)
         /\ run.article_data.feedback # FeedbackSeed
         /\ ~Passed(run.scores[run.article_data.draft - 1])
    /\ (pc = "draft" /\ run.attempt = 1) => run.feedback = FeedbackSeed
    /\ (pc = "draft" /\ run.attempt >= 2) => run.feedback = Critique(run.attempt - 1)

\* The second draft of a rework run that started from the default prompt is
\* written on the first critique.
C25_Witness ==
  /\ pc = "check"
  /\ run.kind = "rework"
  /\ mail_data.body = ""
  /\ run.steps = <<"research", "draft", "check", "draft">>
  /\ run.article_data = [draft |-> 2, feedback |-> "critique1"]

\* ---- C26
\* render_article writes the artifact of the run's topic in this step.
Writes == pc = "render" /\ run'.rendered # run.rendered

\* A write by a GenerateNew or autonomous-advance run creates the artifact.
C26_NewRunsCreate ==
  (Writes /\ run.kind \in {"new_article", "auto"}) =>
    /\ run.topic.slug \notin ARTIKEL_DIR
    /\ ARTIKEL_DIR' = ARTIKEL_DIR \cup {run.topic.slug}

\* A write over an existing artifact is a Rework run's, and leaves the
\* directory's names as they are.
C26_OnlyReworkOverwrites ==
  (Writes /\ run.topic.slug \in ARTIKEL_DIR) =>
    /\ run.kind = "rework"
    /\ mail_data.cmd = "rework"
    /\ ARTIKEL_DIR' = ARTIKEL_DIR

\* No step removes an artifact, and only render_article adds one.
C26_ArtifactsStay ==
  /\ ARTIKEL_DIR \subseteq ARTIKEL_DIR'
  /\ ARTIKEL_DIR' # ARTIKEL_DIR => Writes

\* C26: an existing artifact is overwritten only by a Rework run: every run
\* started by GenerateNew or by autonomous advance renders only a slug that
\* had no artifact when the run started (none is added or removed during the
\* run), so between two Rework commands an artifact is written at most once.
C26_OverwriteOnlyByRework ==
  /\ [][C26_NewRunsCreate]_vars
  /\ [][C26_OnlyReworkOverwrites]_vars
  /\ [][C26_ArtifactsStay]_vars
  /\ [](run.kind \in {"new_article", "auto"} /\ run.rendered = <<>>
          => run.topic.slug \notin ARTIKEL_DIR)
  /\ [](run.kind = "rework" => run.topic.slug \in ARTIKEL_DIR)

\* A GenerateNew run has written the artifact of its topic, next to the
\* artifact of another topic that it left alone.
C26_Witness ==
  /\ pc = "build"
  /\ run.kind = "new_article"
  /\ Len(run.rendered) = 1
  /\ run.topic.slug \in ARTIKEL_DIR
  /\ ARTIKEL_DIR # {run.topic.slug}

\* ---- C27
\* The replies delivered for the message in hand that are a handler's result.
ResultReplies == {i \in DOMAIN sent : sent[i].body.kind # "error"}

\* The error replies delivered for the message in hand.
ErrorReplies == {i \in DOMAIN sent : sent[i].body.kind = "error"}

\* C27 (as claimed; the code violates it). For every message of the
\* allow-listed sender handled in a poll step at most one reply is delivered,
\* the result reply or else an error reply, never both.
C27_AtMostOneReply ==
  mail_data.from = ALLOWED_SENDER =>
    /\ Len(sent) <= 1
    /\ ResultReplies = {} \/ ErrorReplies = {}

\* ---- C28
\* research_topic, generate_article or check_quality raised in the run.
LoopStepRaised ==
  err.step \in {"research_topic", "generate_article", "check_quality"}

\* After such a failure in a run for an unpublished topic nothing of the
\* rest of the pipeline has happened, and the topic is still unpublished.
C28_NothingWritten ==
  (LoopStepRaised /\ run.kind \in {"new_article", "auto"}) =>
    /\ run.rendered = <<>>
    /\ Count(run.steps, "image") = 0
    /\ Count(run.steps, "render") = 0
    /\ Count(run.steps, "build") = 0
    /\ Count(run.steps, "publish") = 0
    /\ run.publish = "none"
    /\ run.topic.slug \notin ARTIKEL_DIR
    /\ reply_text.kind \notin PipelineReplyKinds
    /\ pc \in {"error_reply", "loop", "auto_check", "sleep", "exited"}

\* The failed run's remaining steps leave the directory as it is.
C28_DirectoryKept ==
  LoopStepRaised => ARTIKEL_DIR' = ARTIKEL_DIR

\* A GenerateNew command of the allow-listed sender that resolves to an
\* unpublished topic starts the pipeline for it.
C28_GenerateNewRuns ==
  (pc = "loop" /\ unseen' < unseen /\ mail_data'.from = ALLOWED_SENDER
     /\ mail_data'.cmd = "new_article"
     /\ Resolve[mail_data'.arg] # NoTopic
     /\ Resolve[mail_data'.arg].slug \notin ARTIKEL_DIR) =>
    /\ pc' = "research"
    /\ run'.kind = "new_article"
    /\ run'.topic = Resolve[mail_data'.arg]
    /\ run'.steps = <<>>

\* An autonomous-advance step that has its catalog starts the pipeline for
\* the first unpublished topic.
C28_AutoRuns ==
  (pc = "auto" /\ err' = err /\ ~AllPublished) =>
    /\ pc' = "research"
    /\ run'.kind = "auto"
    /\ run'.topic = Remaining(ARTIKEL_DIR, Topics)[1]
    /\ run'.steps = <<>>

\* C28: if research, drafting or the quality check raises during a run for a
\* topic that is not yet published, the run writes no artifact and performs
\* no site rebuild or publish; the topic is still unpublished afterwards, so
\* a later GenerateNew or autonomous-advance step for it runs the pipeline
\* again.
C28_FailedRunLeavesNoTrace ==
  /\ []C28_NothingWritten
  /\ [][C28_DirectoryKept]_vars
  /\ [][C28_GenerateNewRuns]_vars
  /\ [][C28_AutoRuns]_vars

\* The quality check of a GenerateNew run's second draft raised, and the
\* error reply is due.
C28_Witness ==
  /\ pc = "error_reply"
  /\ run.kind = "new_article"
  /\ err = [step |-> "check_quality", how |-> "raise"]
  /\ run.steps = <<"research", "draft", "check", "draft", "check">>
  /\ run.topic.slug \notin ARTIKEL_DIR

\* ---- C29
\* check_quality on every response: the draft passes exactly when the
\* resulting score is >= 7, and a response without a parsable overall score
\* results in 7, a pass.
C29_GateOnResponses ==
  \A raw \in Responses :
    /\ Quality[raw].passed <=> Quality[raw].score >= 7
    /\ raw \in Unscored => Quality[raw].score = 7 /\ Quality[raw].passed

\* C29: when the quality-check response contains no parsable overall score
\* the draft is treated as passing with score 7: the draft loop ends after
\* that attempt and 7 is the score reported; a draft passes the gate exactly
\* when its resulting score is >= 7.
C29_UnscoredPassesWithSeven ==
  /\ C29_GateOnResponses
  /\ Unscored # {}
  /\ run.kind \in ControllerRuns =>
       LET n == Len(run.scores)
       IN /\ run.unscored =>
               /\ n >= 1
               /\ run.scores[n] = 7
               /\ run.quality_score = 7
               /\ Count(run.steps, "draft") = n
               /\ Count(run.steps, "check") = n
               /\ pc \notin {"draft", "check"}
               /\ reply_text.kind \in PipelineReplyKinds => reply_text.score = 7
               /\ run.kind = "auto" =>
                    \A i \in DOMAIN sent : sent[i].body.score = 7
          /\ \A i \in 1..(n - 1) : run.scores[i] < 7
          /\ (n = 1 /\ pc \in PipelinePcs) =>
               (run.scores[1] >= 7 <=> pc \notin {"draft", "check"})

\* The first response of a GenerateNew run named no score: the run went on
\* with that draft, and the reply reporting 7 was sent.
C29_Witness ==
  /\ pc = "loop"
  /\ run.kind = "new_article"
  /\ run.unscored
  /\ run.scores = <<7>>
  /\ Count(run.steps, "draft") = 1
  /\ reply_text.kind = "created"
  /\ reply_text.score = 7
  /\ sent = << [to |-> ALLOWED_SENDER, body |-> reply_text] >>

\* ---- C30
\* auto_generate_next is called in this step.
AutoStarts == pc # "auto" /\ pc' = "auto"

\* The interval check of the first turn of main's loop passes: the poll step
\* is followed by the autonomous-advance step, whatever time the poll took.
C30_FirstTurnAdvances ==
  (pc = "auto_check" /\ clock.iteration = 1) =>
    /\ pc' = "auto"
    /\ clock'.since_auto = 0

\* The autonomous-advance step starts only from main's interval check, and a
\* later one only when the interval has passed since the one before started,
\* whether that one raised or not.
C30_LaterAfterInterval ==
  AutoStarts =>
    /\ pc = "auto_check"
    /\ clock.since_auto < 0 => clock.iteration = 1
    /\ clock.since_auto >= 0 =>
         /\ clock.since_auto >= AUTO_GENERATE_INTERVAL
         /\ clock.iteration = 2
    /\ clock'.since_auto = 0

\* C30: on controller start the first loop iteration performs an
\* autonomous-advance step right after the first poll step, without waiting
\* for the interval; every later autonomous-advance step starts no sooner
\* than one interval after the start of the previous one, also when the
\* previous one failed.
C30_AutoTiming ==
  /\ [][C30_FirstTurnAdvances]_vars
  /\ [][C30_LaterAfterInterval]_vars
  /\ []((clock.iteration = 1 /\ pc \in {"auto", "notify", "sleep"}) =>
          clock.since_auto = 0)
  /\ []((clock.iteration = 2) => clock.since_auto >= 0)

\* A later autonomous-advance step starts, the one before it having raised.
C30_Witness ==
  /\ pc = "auto"
  /\ clock.iteration = 2
  /\ clock.failed
  /\ clock.since_auto = 0
  /\ since = 0

====
